---- MODULE Spec2Model ----
(***************************************************************************)
(* Model of three components of the repository:                            *)
(*   - the web relay's chat stream generator (src/shared/webapp/app.py),   *)
(*   - the streaming event handler                                         *)
(*     (src/python/workshop/stream_event_handler.py),                      *)
(*   - the PostgreSQL schema/query service                                 *)
(*     (src/python/mcp_server/sales_analysis/sales_analysis_postgres.py)   *)
(*     with the row-level-security policy on orders                        *)
(*     (data/database/generate_zava_postgres.py).                          *)
(* Text is modelled as a sequence of one-character strings.  Python's      *)
(* 0-based indices are kept (rfind returns -1 when nothing is found).      *)
(***************************************************************************)
EXTENDS Integers, Sequences, FiniteSets, TLC

VARIABLES
    \* ---- web relay: one run of WebApp._generate_stream
    r_pc,          \* "request" | "start" | "streaming" | "done"
    r_message,     \* the request's message parameter
    r_session,     \* the request's session_id parameter (no element: None)
    r_rls,         \* the request's rls_user_id parameter (no element: None)
    r_posts,       \* the request bodies posted to the agent service, in order
    r_in,          \* the chunks response.aiter_text() has yielded, in order
    \* ---- web relay: one DELETE /chat/clear request
    c_pc,          \* "off" | "request" | "done"
    c_body,        \* the request body
    c_ret,         \* the dict clear_chat returns
    c_posts,       \* the request bodies sent to the agent service's /chat/clear
    r_out,         \* the events yielded to the client, in order
    r_nchunks,     \* upstream chunks read so far
    r_path,        \* how the run ended: "" | "ok" | "non200" | "reqerr" | "exc"
    \* ---- streaming event handler: one WebStreamEventHandler
    text_buffer,       \* self.text_buffer
    token_queue,       \* self.token_queue (items not yet consumed)
    is_closed,         \* self._is_closed
    assistant_message, \* self.assistant_message
    h_pending,         \* text of the turn the agent runtime has not delivered yet
    h_done,            \* on_done has run
    h_tm,              \* an on_thread_message call is suspended in util.get_files
    h_nmsgs,           \* thread messages seen so far
    h_rets,            \* return values of the put_safely calls made after cleanup ran
    \* ---- schema/query service: one PostgreSQLSchemaProvider and its database
    connection_pool,   \* self.connection_pool: "None" | "open" | "closing"
    all_schemas,       \* self.all_schemas: [none |-> BOOLEAN, map |-> table -> schema pairs]
    schema_cache,      \* self._schema_cache: the cached schema records, one per table name
    conns,             \* the pool's connections: who holds each, and its session identity
    callers,           \* the concurrent callers of the service: call stack, statements, result
    ncalls,            \* calls started so far
    \* ---- SKU assigner: runs of generate_skus.py main on one catalog file
    sku_file,          \* the catalog file on disk
    product_data,      \* the loaded catalog
    sku_pc,            \* "idle" | "generate" | "loop" | "done"
    dry_run,           \* args.dry_run
    existing_skus,     \* generate_and_assign_skus: existing_skus
    sku_counters,      \* sku_counters, per category/type key
    assignment_log,    \* assignment_log
    sku_stats,         \* stats
    sku_pos,           \* the list element the loops are at: <<entry, element>>
    sku_writes,        \* the files this run wrote: "backup", "save"
    sku_runs,          \* the finished runs: mode, input, proposals, writes
    \* ---- image generator: one run of DalleImageGenerator.process_products
    img_disk,          \* the catalog file: its list elements, and whether it is cut short
    img_mem,           \* self.product_data
    img_limit,         \* limit
    img_pc,            \* "next" | "generate" | "open" | "dump" | "sleep" | ... | "done" | "crashed"
    img_i,             \* the list element the loop is at
    generated_count,   \* generated_count
    img_files,         \* the products whose image file this run wrote
    \* ---- database generators: the inventory of the two variants
    inv_globals,       \* the SQL Server module's globals: name -> line of the bound def
    inv_stmt,          \* the next top-level statement of the SQL Server module
    inv_pg,            \* retail.inventory as the Postgres generator fills it
    inv_sql,           \* retail.inventory as the SQL Server generator fills it
    \* ---- database generators: insert_orders
    order_items_data,  \* order_items_data: the rows computed and not yet inserted
    order_items,       \* retail.order_items: the rows as stored
    \* ---- database generators: one full generation run
    gen_variant,       \* which generator runs: "postgres" | "sql_server"
    gen_pc,            \* the phase the run is at (an index into its phase list)
    gen_running,       \* the phases that have started and not yet returned
    gen_done,          \* the phases that have returned
    gen_starts,        \* one record per phase start: the phase, and what had returned
    gen_state,         \* "run" | "complete" | "failed"
    \* ---- database generators: the batching of insert_orders
    bo_pc,             \* "loop" | "insert_orders" | "insert_items" | "done"
    num_customers,     \* num_customers
    customer_id,       \* the customer the loop is at
    total_orders,      \* total_orders
    orders_data,       \* orders_data: the headers not yet inserted
    items_data,        \* order_items_data: the items not yet inserted
    db_orders,         \* retail.orders: row i has order_id i
    db_items,          \* retail.order_items, in insertion order
    bo_made,           \* every header and item generated so far, in order
    bo_draws,          \* the random draws of the customer generated last
    \* ---- configuration: one Config object of either package
    cfg_class,         \* "workshop" | "mcp_server"
    cfg_parts,         \* the components the configured connection string is made of
    appinsights_connection_string,  \* self._appinsights_connection_string
    cfg_result         \* what the property applicationinsights_connection_string returned

reqVars == <<r_message, r_session, r_rls>>
clearVars == <<c_pc, c_body, c_ret, c_posts>>
relayVars == <<r_pc, r_out, r_nchunks, r_path, reqVars, r_posts, r_in, clearVars>>
providerVars == <<connection_pool, all_schemas, schema_cache, conns, callers, ncalls>>
handlerVars == <<text_buffer, token_queue, is_closed, assistant_message,
                 h_pending, h_done, h_tm, h_nmsgs, h_rets>>
skuVars == <<sku_file, product_data, sku_pc, dry_run, existing_skus, sku_counters,
             assignment_log, sku_stats, sku_pos, sku_writes, sku_runs>>
imgVars == <<img_disk, img_mem, img_limit, img_pc, img_i, generated_count, img_files>>
invVars == <<inv_globals, inv_stmt, inv_pg, inv_sql>>
ordVars == <<order_items_data, order_items>>
genVars == <<gen_variant, gen_pc, gen_running, gen_done, gen_starts, gen_state>>
batchVars == <<bo_pc, num_customers, customer_id, total_orders, orders_data, items_data,
               db_orders, db_items, bo_made, bo_draws>>
configVars == <<cfg_class, cfg_parts, appinsights_connection_string, cfg_result>>
runVars == <<genVars, batchVars, configVars>>
scriptVars == <<skuVars, imgVars, invVars, ordVars, runVars>>

\* ------------------------------------------------------------------ bounds
MaxChunks == 2
MaxLines == 2
MaxMsgs == 2
NCallers == 3
MaxCalls == 3

\* =========================================================================
\*  Web relay: WebApp._generate_stream
\* =========================================================================

\* The payloads json.loads can return for an upstream "data: " line; "" and
\* FALSE stand for an absent (falsy) key.
NoData == [content |-> "", file_info |-> "", error |-> "", done |-> FALSE]
UpstreamData ==
    { [NoData EXCEPT !.content = "tok"],
      [NoData EXCEPT !.file_info = "f.png"],
      [NoData EXCEPT !.error = "boom"],
      [NoData EXCEPT !.done = TRUE] }

\* The two pieces of a data line that the transport delivers in two chunks,
\* as the relay sees them: the first piece has the "data: " prefix and a JSON
\* text that stops short, so json.loads raises; the second piece does not
\* start with "data: ".  data is the payload of the line that was cut.
HeadPiece(d) == [prefix |-> TRUE, json |-> FALSE, data |-> d]
TailPiece(d) == [prefix |-> FALSE, json |-> FALSE, data |-> d]
CutData == { [NoData EXCEPT !.content = "tok"] }
IsHeadPiece(line) == line.prefix /\ ~line.json /\ line.data # NoData
IsTailPiece(line) == ~line.prefix /\ ~line.json /\ line.data # NoData

\* One line of an upstream chunk: a well-formed data line, a data line whose
\* JSON does not parse, a line without the "data: " prefix, or a piece of a
\* data line.
UpstreamLines ==
    { [prefix |-> TRUE, json |-> TRUE, data |-> d] : d \in UpstreamData }
    \cup { [prefix |-> TRUE, json |-> FALSE, data |-> NoData],
           [prefix |-> FALSE, json |-> FALSE, data |-> NoData] }
    \cup { HeadPiece(d) : d \in CutData } \cup { TailPiece(d) : d \in CutData }

\* A chunk as chunk.strip().split("\n") sees it; << >> is a whitespace-only chunk.
UpstreamChunks ==
    UNION { [1..n -> UpstreamLines] : n \in 0..MaxLines }

\* The chunks the transport can deliver after the chunks read so far: a line
\* is cut only at the end of a chunk, and its second piece opens the next.
Continues(read, chunk) ==
    LET last == read[Len(read)]
        open == /\ read # << >> /\ last # << >>
                /\ IsHeadPiece(last[Len(last)])
    IN  /\ \A i \in 1..Len(chunk) :
              /\ IsHeadPiece(chunk[i]) => i = Len(chunk)
              /\ IsTailPiece(chunk[i]) => i = 1 /\ open
        /\ open => /\ chunk # << >>
                   /\ chunk[1] = TailPiece(last[Len(last)].data)

DoneEvent == [type |-> "DONE", v |-> ""]
ErrorEvent(msg) == [type |-> "error", v |-> msg]

\* The loop "for line in lines" (app.py 171-191): what it yields from line i on.
RECURSIVE ForwardLines(_, _)
ForwardLines(lines, i) ==
    IF i > Len(lines) THEN << >>
    ELSE LET line == lines[i] IN
         IF ~line.prefix THEN ForwardLines(lines, i + 1)
         ELSE IF ~line.json THEN ForwardLines(lines, i + 1)       \* JSONDecodeError: continue
         ELSE IF line.data.content # ""
              THEN <<[type |-> "content", v |-> line.data.content]>>
                   \o ForwardLines(lines, i + 1)
         ELSE IF line.data.file_info # ""
              THEN <<[type |-> "file", v |-> line.data.file_info]>>
                   \o ForwardLines(lines, i + 1)
         ELSE IF line.data.error # ""
              THEN <<ErrorEvent(line.data.error)>> \o ForwardLines(lines, i + 1)
         ELSE IF line.data.done
              THEN << >>                                           \* break (inner loop only)
         ELSE ForwardLines(lines, i + 1)

\* client.stream(...) answered or failed (app.py 152-164, 196-201).
Connect ==
    /\ r_pc = "start"
    /\ \E outcome \in {"ok200", "non200", "reqerr", "exc"} :
         \/ /\ outcome = "ok200"
            /\ r_pc' = "streaming"
            /\ UNCHANGED <<r_out, r_path>>
         \/ /\ outcome = "non200"
            /\ r_out' = Append(r_out, ErrorEvent("Agent service error"))
            /\ r_pc' = "done"
            /\ r_path' = "non200"
         \/ /\ outcome = "reqerr"
            /\ r_out' = Append(r_out, ErrorEvent("Connection error to agent service"))
            /\ r_pc' = "done"
            /\ r_path' = "reqerr"
         \/ /\ outcome = "exc"
            /\ r_out' = Append(r_out, ErrorEvent("Streaming error"))
            /\ r_pc' = "done"
            /\ r_path' = "exc"
    /\ r_posts' = Append(r_posts, [message |-> r_message, session_id |-> r_session,
                                    rls_user_id |-> r_rls])
    /\ UNCHANGED <<r_nchunks, reqVars, r_in>>
    /\ UNCHANGED <<clearVars, handlerVars, providerVars, scriptVars>>

\* One iteration of "async for chunk in response.aiter_text()" (app.py 167-191).
ReadChunk ==
    /\ r_pc = "streaming"
    /\ r_nchunks < MaxChunks
    /\ \E chunk \in { ch \in UpstreamChunks : Continues(r_in, ch) } :
         /\ r_out' = r_out \o ForwardLines(chunk, 1)
         /\ r_in' = Append(r_in, chunk)
    /\ r_nchunks' = r_nchunks + 1
    /\ UNCHANGED <<r_pc, r_path, reqVars, r_posts>>
    /\ UNCHANGED <<clearVars, handlerVars, providerVars, scriptVars>>

\* The upstream response ends: the completion signal (app.py 193-194).
StreamEnd ==
    /\ r_pc = "streaming"
    /\ r_out' = Append(r_out, DoneEvent)
    /\ r_pc' = "done"
    /\ r_path' = "ok"
    /\ UNCHANGED <<r_nchunks, reqVars, r_posts, r_in>>
    /\ UNCHANGED <<clearVars, handlerVars, providerVars, scriptVars>>

\* The upstream read raises mid-stream: httpx.RequestError or any other
\* exception (app.py 196-201).
StreamFail ==
    /\ r_pc = "streaming"
    /\ \E kind \in {"reqerr", "exc"} :
         /\ r_out' = Append(r_out,
                ErrorEvent(IF kind = "reqerr"
                           THEN "Connection error to agent service"
                           ELSE "Streaming error"))
         /\ r_path' = kind
    /\ r_pc' = "done"
    /\ UNCHANGED <<r_nchunks, reqVars, r_posts, r_in>>
    /\ UNCHANGED <<clearVars, handlerVars, providerVars, scriptVars>>

\* ---- WebApp.clear_chat (app.py 203-235)
\* A key of the JSON body: absent, or present with null (v = {}) or a string.
Absent == [has |-> FALSE, v |-> {}]
Present(v) == [has |-> TRUE, v |-> v]
ClearSessionKeys == { Absent, Present({}), Present({"s1"}) }
ClearRlsKeys ==
    { Absent, Present({}), Present({""}), Present({"S1"}),
      Present({"00000000-0000-0000-0000-000000000000"}) }
NoBody == [json |-> FALSE, session_id |-> Absent, rls_user_id |-> Absent]
ClearBodies ==
    {NoBody} \cup { [json |-> TRUE, session_id |-> s, rls_user_id |-> r] :
                      s \in ClearSessionKeys, r \in ClearRlsKeys }

\* dict.get(key, default)
Get(key, default) == IF key.has THEN key.v ELSE {default}

NoRet == [status |-> "", message |-> ""]

\* clear_chat: the body is parsed, the clear request is sent to the agent
\* service and its answer, or the failure, is reported.
ClearChat ==
    /\ c_pc = "request"
    /\ IF ~c_body.json
       THEN /\ c_ret' = [status |-> "error", message |-> "Error clearing chat"]
            /\ UNCHANGED c_posts
       ELSE /\ c_posts' = Append(c_posts,
                  [message |-> << >>,
                   session_id |-> Get(c_body.session_id, "default"),
                   rls_user_id |-> Get(c_body.rls_user_id,
                                       "00000000-0000-0000-0000-000000000000")])
            /\ \E outcome \in {"ok200", "non200", "reqerr", "exc"} :
                  c_ret' = CASE outcome = "ok200" ->
                                  [status |-> "success", message |-> "cleared"]
                             [] outcome = "non200" ->
                                  [status |-> "error", message |-> "Agent service error"]
                             [] outcome = "reqerr" ->
                                  [status |-> "error",
                                   message |-> "Connection error to agent service"]
                             [] OTHER ->
                                  [status |-> "error", message |-> "Error clearing chat"]
    /\ c_pc' = "done"
    /\ UNCHANGED c_body
    /\ UNCHANGED <<r_pc, r_out, r_nchunks, r_path, reqVars, r_posts, r_in>>
    /\ UNCHANGED <<handlerVars, providerVars, scriptVars>>

IdleClear ==
    /\ c_pc = "off"
    /\ c_body = NoBody
    /\ c_ret = NoRet
    /\ c_posts = << >>

InitClear ==
    /\ c_pc = "request"
    /\ c_body \in ClearBodies
    /\ c_ret = NoRet
    /\ c_posts = << >>

InitRelay ==
    /\ IdleClear
    /\ r_pc = "start"
    /\ r_out = << >>
    /\ r_nchunks = 0
    /\ r_path = ""
    /\ r_message = <<"h", "i">>
    /\ r_session = {"default"}
    /\ r_rls = {"S1"}
    /\ r_posts = << >>
    /\ r_in = << >>

NextRelay == Connect \/ ReadChunk \/ StreamEnd \/ StreamFail

\* ---- WebApp.stream_chat: the checks in front of the stream generator
MaxMessageLen == 2
Whitespace == {" ", "\n", "\t"}
MessageChars == {" ", "\n", "h"}
Messages == UNION { [1..n -> MessageChars] : n \in 0..MaxMessageLen }
SessionArgs == { {}, {""}, {"s1"} }
RlsArgs == { {}, {""}, {" "}, {"S1"} }

\* str.lstrip() / str.rstrip() / str.strip() without arguments.
RECURSIVE lstrip(_)
lstrip(t) ==
    IF t = << >> THEN << >>
    ELSE IF t[1] \in Whitespace THEN lstrip(Tail(t))
    ELSE t

RECURSIVE rstrip(_)
rstrip(t) ==
    IF t = << >> THEN << >>
    ELSE IF t[Len(t)] \in Whitespace THEN rstrip(SubSeq(t, 1, Len(t) - 1))
    ELSE t

strip(t) == rstrip(lstrip(t))

\* "not x" for an optional string: None and "" are falsy.
Falsy_none_only(x) == x = {}
Falsy(x) == x = {} \/ x = {""}

\* stream_chat (app.py 117-147): an inline one-event response, or the stream
\* generator with session_id defaulted.
StreamChat ==
    /\ r_pc = "request"
    /\ IF strip(r_message) = << >>
       THEN /\ r_out' = <<ErrorEvent("Empty message")>>
            /\ r_pc' = "done"
            /\ r_path' = "empty"
            /\ UNCHANGED r_session
       ELSE IF Falsy(r_rls)
       THEN /\ r_out' = <<ErrorEvent("RLS User ID is required")>>
            /\ r_pc' = "done"
            /\ r_path' = "norls"
            /\ UNCHANGED r_session
       ELSE /\ r_session' = (IF Falsy(r_session) THEN {"default"} ELSE r_session)
            /\ r_pc' = "start"
            /\ UNCHANGED <<r_out, r_path>>
    /\ UNCHANGED <<r_message, r_rls, r_nchunks, r_posts, r_in>>
    /\ UNCHANGED <<clearVars, handlerVars, providerVars, scriptVars>>

ChatRequest ==
    /\ r_pc = "request"
    /\ r_out = << >>
    /\ r_nchunks = 0
    /\ r_path = ""
    /\ r_message \in Messages
    /\ r_session \in SessionArgs
    /\ r_rls \in RlsArgs
    /\ r_posts = << >>
    /\ r_in = << >>

\* The request and the connection to the agent service; what the generator
\* forwards from an open stream is the subject of NextRelay.
InitChat == ChatRequest /\ IdleClear

NextChat == StreamChat \/ Connect \/ StreamEnd \/ StreamFail

\* =========================================================================
\*  Streaming event handler: WebStreamEventHandler
\* =========================================================================

max_buffer_size == 1000

\* The literal part "(sandbox:/mnt/data" of markdown_pattern.
SandboxPrefix == <<"(", "s", "a", "n", "d", "b", "o", "x", ":", "/", "m", "n", "t", "/", "d", "a", "t", "a">>

\* The least index x >= from with s[x] = ch, 0 when there is none.
FirstIdx(s, ch, from) ==
    IF \E x \in from..Len(s) : s[x] = ch
    THEN CHOOSE x \in from..Len(s) :
            /\ s[x] = ch
            /\ \A y \in from..(x - 1) : s[y] # ch
    ELSE 0

\* markdown_pattern = !?\[[^\]]*\]\(sandbox:/mnt/data[^)]*\) matched at
\* position i (1-based): the index of the match's last character, 0 when the
\* pattern does not match there.  The negated classes make the match unique:
\* the bracket closes at the first "]", the parenthesis at the first ")".
MatchEnd(s, i) ==
    LET j == IF s[i] = "!" THEN i + 1 ELSE i
    IN  IF j > Len(s) \/ s[IF j > Len(s) THEN i ELSE j] # "[" THEN 0
        ELSE LET k == FirstIdx(s, "]", j + 1)
             IN  IF k = 0 \/ k + Len(SandboxPrefix) > Len(s) THEN 0
                 ELSE IF SubSeq(s, k + 1, k + Len(SandboxPrefix)) # SandboxPrefix THEN 0
                 ELSE FirstIdx(s, ")", k + Len(SandboxPrefix) + 1)

\* list(markdown_pattern.finditer(buf)) is non-empty.
HasMatch(s) == \E i \in 1..Len(s) : MatchEnd(s, i) # 0

\* markdown_pattern.sub("", s): leftmost non-overlapping matches removed.
RECURSIVE SubFrom(_, _)
SubFrom(s, i) ==
    IF i > Len(s) THEN << >>
    ELSE LET e == MatchEnd(s, i)
         IN  IF e # 0 THEN SubFrom(s, e + 1)
             ELSE <<s[i]>> \o SubFrom(s, i + 1)

PatternSub(s) == SubFrom(s, 1)

\* str.rfind(pat): the highest 0-based index where pat occurs, -1 when none.
rfind(s, pat) ==
    LET hits == { x \in 1..(Len(s) - Len(pat) + 1) :
                    SubSeq(s, x, x + Len(pat) - 1) = pat }
    IN  IF hits = {} THEN -1
        ELSE (CHOOSE x \in hits : \A y \in hits : y <= x) - 1

TextItem(t) == [type |-> "text", content |-> t, file_info |-> ""]
FileItem(f) == [type |-> "file", content |-> << >>, file_info |-> f]

\* put_safely without the test of _is_closed.
put_safely_unchecked(queue, closed, item) ==
    [queue |-> Append(queue, item), ret |-> TRUE]

\* put_safely (stream_event_handler.py 64-73): the queue afterwards and the
\* value returned.  The queue is unbounded, so put never waits nor raises.
put_safely(queue, closed, item) ==
    IF closed THEN [queue |-> queue, ret |-> FALSE]
    ELSE [queue |-> Append(queue, item), ret |-> TRUE]

\* The partial-pattern start index without the branch for a trailing "!".
PartialStartIdx_no_bang(buf) ==
    LET image_start_idx == rfind(buf, <<"!", "[">>)
        link_start_idx == rfind(buf, <<"[">>)
    IN  IF image_start_idx # -1 THEN image_start_idx
        ELSE link_start_idx

\* The partial-pattern start index of _process_buffered_text (lines 108-124).
PartialStartIdx(buf) ==
    LET image_start_idx == rfind(buf, <<"!", "[">>)
        link_start_idx == rfind(buf, <<"[">>)
        exclamation_idx == rfind(buf, <<"!">>)
    IN  IF image_start_idx # -1 THEN image_start_idx
        ELSE IF link_start_idx # -1
             THEN IF image_start_idx = -1 \/ link_start_idx > image_start_idx + 1
                  THEN link_start_idx ELSE -1
        ELSE IF exclamation_idx # -1 /\ exclamation_idx = Len(buf) - 1
             THEN exclamation_idx
        ELSE -1

\* _process_buffered_text up to the size check (lines 88-136): the buffer left
\* and the texts handed to put_safely, in order.
ProcessMatchOrPartial(buf) ==
    IF buf = << >> THEN [buffer |-> buf, puts |-> << >>]
    ELSE IF HasMatch(buf)
    THEN LET filtered_text == PatternSub(buf)
         IN  [buffer |-> << >>,
              puts |-> IF filtered_text # << >> THEN <<filtered_text>> ELSE << >>]
    ELSE LET partial_start_idx == PartialStartIdx(buf)
         IN  IF partial_start_idx # -1
             THEN LET text_to_send == SubSeq(buf, 1, partial_start_idx)
                  IN  [buffer |-> SubSeq(buf, partial_start_idx + 1, Len(buf)),
                       puts |-> IF text_to_send # << >> THEN <<text_to_send>> ELSE << >>]
             ELSE [buffer |-> << >>, puts |-> <<buf>>]

\* A text whose k-th character opens a bracket that never closes, longer
\* than the cap on the buffer.
CapText(k) == [i \in 1..(max_buffer_size + 6) |-> IF i = k THEN "[" ELSE "a"]
CapTexts == { CapText(k) : k \in 1..3 }

\* _process_buffered_text without the size check of lines 138-142.
process_buffered_text_uncapped(buf) == ProcessMatchOrPartial(buf)

\* _process_buffered_text (lines 86-142), with the cap on the buffer.
process_buffered_text(buf) ==
    IF buf = << >> THEN [buffer |-> buf, puts |-> << >>]
    ELSE LET p == ProcessMatchOrPartial(buf)
         IN  IF Len(p.buffer) > max_buffer_size
             THEN [buffer |-> << >>, puts |-> Append(p.puts, p.buffer)]
             ELSE p

\* Successive put_safely calls for the items of a list.
RECURSIVE PutAll(_, _, _)
PutAll(queue, closed, items) ==
    IF items = << >> THEN queue
    ELSE PutAll(put_safely(queue, closed, Head(items)).queue, closed, Tail(items))

\* The return values of put_safely for a non-empty list of items.
PutRets(queue, closed, items) ==
    { put_safely(queue, closed, items[x]).ret : x \in 1..Len(items) }

\* What a callback adds to the record of late put_safely results.
LateRets(queue, closed, items) ==
    IF closed THEN h_rets \cup PutRets(queue, closed, items) ELSE h_rets

TextItems(texts) == [x \in 1..Len(texts) |-> TextItem(texts[x])]

\* on_message_delta (lines 144-153) for a non-empty delta.text: the next
\* n characters of the turn's text.
DeliverDelta(n) ==
    LET delta == SubSeq(h_pending, 1, n)
        p == process_buffered_text(text_buffer \o delta)
    IN  /\ assistant_message' = assistant_message \o delta
        /\ text_buffer' = p.buffer
        /\ token_queue' = PutAll(token_queue, is_closed, TextItems(p.puts))
        /\ h_rets' = LateRets(token_queue, is_closed, TextItems(p.puts))
        /\ h_pending' = SubSeq(h_pending, n + 1, Len(h_pending))

OnMessageDelta ==
    /\ ~h_done
    /\ h_pending # << >>
    /\ \E n \in 1..Len(h_pending) : DeliverDelta(n)
    /\ UNCHANGED <<is_closed, h_done, h_tm, h_nmsgs>>
    /\ UNCHANGED <<relayVars, providerVars, scriptVars>>

\* on_message_delta when the runtime cuts the text only at token boundaries:
\* every TokenLen-th character, and the end of the text.
TokenLen == 3
OnTokenDelta ==
    /\ ~h_done
    /\ h_pending # << >>
    /\ \E n \in { k \in 1..Len(h_pending) :
                     \/ (Len(assistant_message) + k) % TokenLen = 0
                     \/ k = Len(h_pending) } : DeliverDelta(n)
    /\ UNCHANGED <<is_closed, h_done, h_tm, h_nmsgs>>
    /\ UNCHANGED <<relayVars, providerVars, scriptVars>>

\* on_message_delta for a delta of one character or of a long run of text.
DeltaSizes == {1, 250, 500}
OnSizedDelta ==
    /\ ~h_done
    /\ h_pending # << >>
    /\ \E n \in { k \in DeltaSizes : k <= Len(h_pending) } : DeliverDelta(n)
    /\ UNCHANGED <<is_closed, h_done, h_tm, h_nmsgs>>
    /\ UNCHANGED <<relayVars, providerVars, scriptVars>>

\* on_thread_message up to its suspension in util.get_files (lines 155-158).
OnThreadMessageCall ==
    /\ ~h_tm
    /\ h_nmsgs < MaxMsgs
    /\ h_tm' = TRUE
    /\ h_nmsgs' = h_nmsgs + 1
    /\ UNCHANGED <<text_buffer, token_queue, is_closed, assistant_message,
                   h_pending, h_done, h_rets>>
    /\ UNCHANGED <<relayVars, providerVars, scriptVars>>

FileLists == { << >>, <<"f1">>, <<"f1", "f2">> }

\* on_thread_message resumed with the files (lines 160-164).
OnThreadMessageResume ==
    /\ h_tm
    /\ \E files \in FileLists :
         LET items == [x \in 1..Len(files) |-> FileItem(files[x])]
         IN  /\ token_queue' = PutAll(token_queue, is_closed, items)
             /\ h_rets' = LateRets(token_queue, is_closed, items)
    /\ h_tm' = FALSE
    /\ UNCHANGED <<text_buffer, is_closed, assistant_message, h_pending, h_done, h_nmsgs>>
    /\ UNCHANGED <<relayVars, providerVars, scriptVars>>

\* on_done (lines 191-199): the final flush.
OnDone ==
    /\ ~h_done
    /\ h_done' = TRUE
    /\ LET filtered_text == PatternSub(text_buffer)
           items == IF text_buffer # << >> /\ filtered_text # << >>
                    THEN <<TextItem(filtered_text)>> ELSE << >>
       IN  /\ token_queue' = PutAll(token_queue, is_closed, items)
           /\ h_rets' = LateRets(token_queue, is_closed, items)
    /\ text_buffer' = << >>
    /\ UNCHANGED <<is_closed, assistant_message, h_pending, h_tm, h_nmsgs>>
    /\ UNCHANGED <<relayVars, providerVars, scriptVars>>

\* cleanup (lines 45-62): idempotent close, buffer cleared, queue drained.
\* The body has no suspension point, so it is one step.
Cleanup ==
    /\ IF is_closed
       THEN UNCHANGED <<is_closed, text_buffer, token_queue>>
       ELSE /\ is_closed' = TRUE
            /\ text_buffer' = << >>
            /\ token_queue' = << >>
    /\ UNCHANGED <<assistant_message, h_pending, h_done, h_tm, h_nmsgs, h_rets>>
    /\ UNCHANGED <<relayVars, providerVars, scriptVars>>

\* The text of the split scenario: see ![img](sandbox:/mnt/data/x.png) done
SplitText == <<"s", "e", "e", " ", "!", "[", "i", "m", "g", "]", "(", "s", "a", "n", "d", "b", "o", "x", ":", "/", "m", "n", "t", "/", "d", "a", "t", "a", "/", "x", ".", "p", "n", "g", ")", " ", "d", "o", "n", "e">>

\* The image reference of SplitText.
SplitRef == <<"!", "[", "i", "m", "g", "]", "(", "s", "a", "n", "d", "b", "o", "x", ":", "/", "m", "n", "t", "/", "d", "a", "t", "a", "/", "x", ".", "p", "n", "g", ")">>

\* A text with a link reference and an image reference.
TwoRefText == <<"a", "[", "]", "(", "s", "a", "n", "d", "b", "o", "x", ":", "/", "m", "n", "t", "/", "d", "a", "t", "a", ")", "b", "!", "[", "]", "(", "s", "a", "n", "d", "b", "o", "x", ":", "/", "m", "n", "t", "/", "d", "a", "t", "a", ")", "c">>

\* Short texts for the lifecycle scenarios.
HandlerTexts == { <<"a", "b">>, <<"a", "!", "[", "b">>, <<"[", "a", "]">> }

InitHandlerState ==
    /\ text_buffer = << >>
    /\ token_queue = << >>
    /\ is_closed = FALSE
    /\ assistant_message = << >>
    /\ h_done = FALSE
    /\ h_tm = FALSE
    /\ h_nmsgs = 0
    /\ h_rets = {}

NextSplit == OnMessageDelta \/ OnDone

NextRefs == OnTokenDelta \/ OnDone

NextHandler ==
    OnMessageDelta \/ OnThreadMessageCall \/ OnThreadMessageResume \/ OnDone \/ Cleanup


\* =========================================================================
\*  Schema/query service: PostgreSQLSchemaProvider and its database
\* =========================================================================

max_size == 3
Conns == 1..max_size
Callers == 1..NCallers

SUPER_MANAGER_UUID == "00000000-0000-0000-0000-000000000000"

\* ---- the database.  A table name is the sequence of its dot-separated
\* segments: <<"retail", "orders">> is "retail.orders", <<"orders">> has no
\* dot, <<"retail", "">> is "retail.".
StoreRows ==
    << [store_id |-> 1, store_name |-> "Store A", rls_user_id |-> "S1"],
       [store_id |-> 2, store_name |-> "Store B", rls_user_id |-> "S2"] >>

OrderRows ==
    << [order_id |-> 1, store_id |-> 1, year |-> 2023],
       [order_id |-> 2, store_id |-> 2, year |-> 2024],
       [order_id |-> 3, store_id |-> 2, year |-> 2024] >>

\* EXTRACT(YEAR FROM order_date)::text, and str(row["year"]) of it.
YearText(year) == IF year = 2023 THEN "2023" ELSE "2024"

\* Products with their cosine distance to the query embedding, in units of
\* 10^-4 (a cosine distance lies in [0, 2]), in ascending order of distance.
ProductRows ==
    << [product_id |-> 1, distance |-> 1000],
       [product_id |-> 2, distance |-> 6996],
       [product_id |-> 3, distance |-> 7000],
       [product_id |-> 4, distance |-> 7010],
       [product_id |-> 5, distance |-> 12000] >>

BaseTables == {"stores", "orders"}
TableColumns(name) ==
    IF name = "stores" THEN {"store_id", "store_name", "rls_user_id", "is_online"}
    ELSE IF name = "orders" THEN {"order_id", "customer_id", "store_id", "order_date"}
    ELSE {}

\* Inputs of the calls.
TableArgs ==
    { <<"retail", "stores">>, <<"retail", "orders">>, <<"retail", "missing">>,
      <<"stores">>, <<"retail", "">> }
ColumnArgs == {"store_name", "nosuch"}
TableListArgs ==
    { << >>, << <<"retail", "stores">> >>, << <<"stores">>, <<"retail", "orders">> >>,
      << <<"retail", "missing">>, <<"retail", "orders">> >> }
SqlArgs == {"orders", "empty", "bad"}
\* similarity_threshold, in hundredths of a percent.
ThresholdArgs == {3000, 10000}
SearchThresholdArgs == {-2500, 0, 3000, 3004, 10000}
MaxRowsArgs == {1, 20}

\* _parse_table_name checking only that the name has a dot.
ValidName_dot_only(table) == Len(table) >= 2

\* _parse_table_name (lines 123-136) accepts the name: it has a dot, and
\* split(".", 1) gives two non-empty parts.
ValidName(table) ==
    /\ Len(table) >= 2
    /\ table[1] # ""
    /\ ~(Len(table) = 2 /\ table[2] = "")

\* The information_schema.tables lookup of table_exists (lines 153-160).
CatalogHasTable(table) ==
    /\ Len(table) = 2
    /\ table[1] = "retail"
    /\ table[2] \in BaseTables

\* The information_schema.columns lookup of column_exists (lines 174-182).
CatalogHasColumn(table, column) ==
    CatalogHasTable(table) /\ column \in TableColumns(table[2])

\* The policy store_manager_orders (generate_zava_postgres.py 364-378): the
\* USING expression for one row under the session's app.current_rls_user_id.
OrdersPolicy(row, setting) ==
    \/ setting = SUPER_MANAGER_UUID
    \/ \E i \in 1..Len(StoreRows) :
          /\ StoreRows[i].store_id = row.store_id
          /\ StoreRows[i].rls_user_id = setting

VisibleOrders(setting) ==
    SelectSeq(OrderRows, LAMBDA row : OrdersPolicy(row, setting))

RECURSIVE SortedSeq(_)
SortedSeq(S) ==
    IF S = {} THEN << >>
    ELSE LET m == CHOOSE x \in S : \A y \in S : x <= y
         IN  <<m>> \o SortedSeq(S \ {m})

\* SELECT DISTINCT EXTRACT(YEAR FROM order_date) ... ORDER BY year, under RLS.
AvailableYears(setting) ==
    LET rows == VisibleOrders(setting)
        years == SortedSeq({ rows[i].year : i \in 1..Len(rows) })
    IN  [i \in 1..Len(years) |-> YearText(years[i])]

\* SELECT DISTINCT store_name FROM retail.stores ORDER BY store_name (the
\* policy on stores lets every identity see every row).
StoreNames == [i \in 1..Len(StoreRows) |-> StoreRows[i].store_name]

\* The rows conn.fetch(sql_query) returns for the queries of SqlArgs.
QueryRows(sql, setting) ==
    IF sql = "orders" THEN VisibleOrders(setting) ELSE << >>

\* ---- values returned by the service
SchemaData(table, enum) ==
    [error |-> "", table_name |-> table, enum |-> enum]
NotFoundError(table) ==
    [error |-> "not found", table_name |-> table, enum |-> << >>]

\* format_schema_metadata_for_ai (lines 405-472): the text block, by content.
format_schema_metadata_for_ai(schema) ==
    IF schema.error # ""
    THEN [kind |-> "error", table |-> schema.table_name, values |-> << >>]
    ELSE [kind |-> "table", table |-> schema.table_name, values |-> schema.enum]

\* The error envelope with the count of a one-row result.
ErrEnvelope_one_row(msg, q) ==
    [err |-> msg, q |-> q, c |-> << >>, r |-> << >>, n |-> 1, msg |-> ""]

ErrEnvelope(msg, q) ==
    [err |-> msg, q |-> q, c |-> << >>, r |-> << >>, n |-> 0, msg |-> ""]
EmptyEnvelope(msg) ==
    [err |-> "", q |-> "", c |-> << >>, r |-> << >>, n |-> 0, msg |-> msg]
RowsEnvelope(columns, data_rows) ==
    [err |-> "", q |-> "", c |-> columns, r |-> data_rows, n |-> Len(data_rows),
     msg |-> ""]

\* execute_query's envelope for the rows fetched (lines 673-686).
QueryEnvelope(rows) ==
    IF rows = << >> THEN EmptyEnvelope("No rows")
    ELSE RowsEnvelope(<<"order_id", "store_id", "year">>,
            [i \in 1..Len(rows) |->
                <<rows[i].order_id, rows[i].store_id, rows[i].year>>])

Min(a, b) == IF a <= b THEN a ELSE b
Max(a, b) == IF a >= b THEN a ELSE b

\* "distance_threshold = 1.0 - (similarity_threshold / 100.0)" (line 715), in
\* units of 10^-4.
distance_threshold_unscaled(similarity_threshold) == 100 - similarity_threshold
distance_threshold(similarity_threshold) == 10000 - similarity_threshold

\* round(x, 1) of a percentage x >= 0 given in hundredths: the nearest tenth,
\* in tenths.  (A tie is decided by the binary value of the float; no row
\* here is at a tie.)
Round1(x) == (x + 5) \div 10

\* search_products_by_similarity's query (lines 710-735): the rows within the
\* distance threshold, nearest first, at most min(max_rows, 100) of them.
SimilarRows(similarity_threshold, max_rows) ==
    LET cutoff == distance_threshold(similarity_threshold)
        hits == SelectSeq(ProductRows, LAMBDA row : row.distance <= cutoff)
    IN  SubSeq(hits, 1, Min(Len(hits), Min(max_rows, 100)))

\* search_products_by_similarity's envelope (lines 737-756); sp is
\* round(max(0, (1 - similarity_distance) * 100), 1), in tenths of a percent.
SearchEnvelope(rows) ==
    IF rows = << >> THEN EmptyEnvelope("No products >= threshold")
    ELSE RowsEnvelope(<<"product_id", "similarity_distance", "sp">>,
            [i \in 1..Len(rows) |->
                <<rows[i].product_id, rows[i].distance,
                  Round1(Max(0, 10000 - rows[i].distance))>>])

\* ---- callers and their call stacks
NoArgs ==
    [table |-> << >>, column |-> "", names |-> << >>, sql |-> "",
     threshold |-> 0, max_rows |-> 0]

IdleCaller(on) ==
    [on |-> on, op |-> "", args |-> NoArgs, rls |-> "", stack |-> << >>,
     rv |-> FALSE, rx |-> "", stmts |-> << >>, failed |-> FALSE,
     res |-> [kind |-> "none", v |-> FALSE]]

\* A frame of a caller's stack: the function, the await it is suspended at,
\* its arguments and locals.
Frame(fn, pc, table, column) ==
    [fn |-> fn, pc |-> pc, table |-> table, column |-> column, conn |-> 0,
     names |-> << >>, acc |-> << >>]

Top(cl) == cl.stack[Len(cl.stack)]
Running(c, fn) == callers[c].stack # << >> /\ Top(callers[c]).fn = fn
SetTop(cl, frame) == [cl EXCEPT !.stack[Len(cl.stack)] = frame]
Push(cl, frame) == [cl EXCEPT !.stack = Append(@, frame)]
Goto(cl, pc) == SetTop(cl, [Top(cl) EXCEPT !.pc = pc])

\* The top function returns v: to its caller's frame, or as the call's result.
Return(cl, v) ==
    IF Len(cl.stack) = 1
    THEN [cl EXCEPT !.stack = << >>, !.res = [kind |-> "value", v |-> v]]
    ELSE [cl EXCEPT !.stack = SubSeq(@, 1, Len(@) - 1), !.rv = v, !.rx = ""]

\* The top function raises e: into its caller's frame, or out of the call.
Raise(cl, e) ==
    IF Len(cl.stack) = 1
    THEN [cl EXCEPT !.stack = << >>, !.res = [kind |-> "raise", v |-> e]]
    ELSE [cl EXCEPT !.stack = SubSeq(@, 1, Len(@) - 1), !.rv = FALSE, !.rx = e]

\* A statement sent to the database during the call.
Log(cl, q) == [cl EXCEPT !.stmts = Append(@, q)]

\* A step of the call failed: no pool, acquire raised, or a statement raised.
Failed(cl) == [cl EXCEPT !.failed = TRUE]

\* get_connection with a pool that hands out connections already held.
get_connection_shared ==
    IF connection_pool = "None" THEN {-1}
    ELSE IF connection_pool = "closing" THEN {0}
    ELSE Conns \cup {0}

\* get_connection (lines 107-116): the possible outcomes.  -1: no pool, the
\* RuntimeError of line 110; 0: acquire raised, the RuntimeError of line 116;
\* k > 0: connection k, free until now.  With no free connection acquire
\* waits: there is no outcome.  Free connections with the same session
\* identity are interchangeable: the lowest-numbered stands for them.
get_connection ==
    IF connection_pool = "None" THEN {-1}
    ELSE IF connection_pool = "closing" THEN {0}
    ELSE LET free == { k \in Conns : conns[k].holder = 0 }
             first == { k \in free : \A j \in free :
                                        conns[j].ident = conns[k].ident => k <= j }
         IN  first \cup (IF free # {} THEN {0} ELSE {})

\* The caller's top frame takes connection k.
TakeConn(cl, k) == SetTop(cl, [Top(cl) EXCEPT !.conn = k])
Acquired(cs, k, c) == [cs EXCEPT ![k].holder = c]

\* release_connection (lines 118-121).  The pool may reset the session on
\* release (keep = FALSE) or leave its settings in place.
Released(cs, k, keep) ==
    [cs EXCEPT ![k] = [holder |-> 0, ident |-> IF keep THEN @.ident ELSE ""]]

\* The identity-set statement having no effect on the session.
SetConfig_skipped(cs, k, rls) == cs

\* SELECT set_config('app.current_rls_user_id', $1, false) on connection k.
SetConfig(cs, k, rls) == [cs EXCEPT ![k].ident = rls]
\* ---- the steps of the service's functions.  The service runs on one event
\* loop: a function runs from the completion of one await to its next await
\* without interleaving.  st is the caller's record cl with the connections
\* cs, the per-table cache and all_schemas as the run has left them so far.
Cur(c) ==
    [cl |-> callers[c], cs |-> conns, cache |-> schema_cache, all |-> all_schemas]

Returns(st, v) == [st EXCEPT !.cl = Return(@, v)]
Raises(st, e) == [st EXCEPT !.cl = Raise(@, e)]
Calls(st, pc, frame) == [st EXCEPT !.cl = Push(Goto(@, pc), frame)]

\* The top frame gets connection k and goes on to await at pc.
Takes(c, st, k, pc) ==
    [st EXCEPT !.cl = Goto(TakeConn(@, k), pc), !.cs = Acquired(@, k, c)]

\* A finally clause that leaves the connection checked out.
Releases_skipped(st, keep) == st

\* The finally clause: the top frame's connection goes back to the pool.
Releases(st, keep) ==
    [st EXCEPT !.cs = Released(@, Top(st.cl).conn, keep)]

Sends(st, q) == [st EXCEPT !.cl = Log(@, q)]

\* The outcomes a step draws from: those of get_connection when the function
\* is suspended in it (none while it has to wait), else a single one.
Outcomes(c) == IF Top(callers[c]).pc = "acq" THEN get_connection ELSE {0}

Cached(cache, table) == { s \in cache : s.table_name = table }
CachePut(cache, schema) ==
    { s \in cache : s.table_name # schema.table_name } \cup {schema}

\* table_exists (lines 147-166).
table_exists_step(c, st, out, ok, keep) ==
    LET top == Top(st.cl)
    IN  IF top.pc = "acq"
        THEN IF out <= 0
             THEN Returns(st, FALSE)
             ELSE IF ~ValidName(top.table)
             THEN Returns(Releases(Takes(c, st, out, "query"), keep), FALSE)
             ELSE Takes(c, st, out, "query")
        ELSE Returns(Releases(Sends(st, "table_exists"), keep),
                     ok /\ CatalogHasTable(top.table))

\* column_exists without its except clause.
column_exists_step_no_except(c, st, out, ok, keep) ==
    LET top == Top(st.cl)
    IN  IF top.pc = "acq"
        THEN IF out <= 0
             THEN Raises(st, "RuntimeError")
             ELSE IF ~ValidName(top.table)
             THEN Raises(Releases(Takes(c, st, out, "query"), keep), "ValueError")
             ELSE Takes(c, st, out, "query")
        ELSE IF ok
        THEN Returns(Releases(Sends(st, "column_exists"), keep),
                     CatalogHasColumn(top.table, top.column))
        ELSE Raises(Releases(Sends(st, "column_exists"), keep), "DatabaseError")

\* column_exists (lines 168-188).
column_exists_step(c, st, out, ok, keep) ==
    LET top == Top(st.cl)
    IN  IF top.pc = "acq"
        THEN IF out <= 0
             THEN Returns(st, FALSE)
             ELSE IF ~ValidName(top.table)
             THEN Returns(Releases(Takes(c, st, out, "query"), keep), FALSE)
             ELSE Takes(c, st, out, "query")
        ELSE Returns(Releases(Sends(st, "column_exists"), keep),
                     ok /\ CatalogHasColumn(top.table, top.column))

\* SELECT DISTINCT column FROM table ... ORDER BY column (line 203).
DistinctValues(table, column) ==
    IF table = <<"retail", "stores">> /\ column = "store_name" THEN StoreNames
    ELSE << >>

\* fetch_distinct_values (lines 190-208).
fetch_distinct_values_step(c, st, out, ok, keep) ==
    LET top == Top(st.cl)
    IN  CASE top.pc = "begin" ->
               IF ~ValidName(top.table)
               THEN Raises(st, "ValueError")
               ELSE Calls(st, "after_te", Frame("table_exists", "acq", top.table, ""))
          [] top.pc = "after_te" ->
               IF ~st.cl.rv
               THEN Raises(st, "ValueError")
               ELSE Calls(st, "after_ce",
                          Frame("column_exists", "acq", top.table, top.column))
          [] top.pc = "after_ce" ->
               IF ~st.cl.rv
               THEN Raises(st, "ValueError")
               ELSE [st EXCEPT !.cl = Goto(@, "acq")]
          [] top.pc = "acq" ->
               IF out <= 0
               THEN Raises(st, "RuntimeError")
               ELSE Takes(c, st, out, "query")
          [] OTHER ->
               IF ok
               THEN Returns(Releases(Sends(st, "distinct"), keep),
                            DistinctValues(top.table, top.column))
               ELSE Raises(Releases(Sends(st, "distinct"), keep), "DatabaseError")

\* get_table_schema (lines 226-373).
get_table_schema_step(c, st, out, ok, keep) ==
    LET top == Top(st.cl)
        ident == st.cs[top.conn].ident
        finish(from, enum) ==
            Returns([Releases(from, keep) EXCEPT
                        !.cache = CachePut(@, SchemaData(top.table, enum))],
                    SchemaData(top.table, enum))
    IN  CASE top.pc = "begin" ->
               IF Cached(st.cache, top.table) # {}
               THEN Returns(st, CHOOSE s \in Cached(st.cache, top.table) : TRUE)
               ELSE IF ~ValidName(top.table)
               THEN Raises(st, "ValueError")
               ELSE Calls(st, "after_te", Frame("table_exists", "acq", top.table, ""))
          [] top.pc = "after_te" ->
               IF ~st.cl.rv
               THEN Returns(st, NotFoundError(top.table))
               ELSE [st EXCEPT !.cl = Goto(@, "acq")]
          [] top.pc = "acq" ->
               IF out <= 0
               THEN Raises(st, "RuntimeError")
               ELSE Takes(c, st, out, "set")
          [] top.pc = "set" ->
               IF ok
               THEN [st EXCEPT !.cl = Goto(Log(@, "set_config"), "describe"),
                               !.cs = SetConfig(@, top.conn, st.cl.rls)]
               ELSE Raises(Releases(Sends(st, "set_config"), keep), "DatabaseError")
          [] top.pc = "describe" ->
               IF ~ok
               THEN Raises(Releases(Sends(st, "describe"), keep), "DatabaseError")
               ELSE IF top.table[2] = "stores"
               THEN Calls(Sends(st, "describe"), "after_fdv",
                          Frame("fetch_distinct_values", "begin",
                                <<top.table[1], "stores">>, "store_name"))
               ELSE IF top.table[2] = "orders"
               THEN [st EXCEPT !.cl = Goto(Log(@, "describe"), "years")]
               ELSE finish(Sends(st, "describe"), << >>)
          [] top.pc = "years" ->
               finish(Sends(st, "years"), IF ok THEN AvailableYears(ident) ELSE << >>)
          [] OTHER ->
               finish(st, IF st.cl.rx # "" THEN << >> ELSE st.cl.rv)

\* get_table_metadata_string (lines 474-479).
get_table_metadata_string_step(c, st, out, ok, keep) ==
    IF Top(st.cl).pc = "begin"
    THEN Calls(st, "after_gts",
               Frame("get_table_schema", "begin", Top(st.cl).table, ""))
    ELSE IF st.cl.rx # ""
    THEN Raises(st, st.cl.rx)
    ELSE Returns(st, format_schema_metadata_for_ai(st.cl.rv))

\* execute_query (lines 657-695).
execute_query_step(c, st, out, ok, keep) ==
    LET top == Top(st.cl)
        sql == st.cl.args.sql
        failed(from) ==
            Returns([from EXCEPT !.cl = Failed(@)],
                    ErrEnvelope("PostgreSQL query failed", sql))
    IN  CASE top.pc = "acq" ->
               IF out <= 0 THEN failed(st) ELSE Takes(c, st, out, "set")
          [] top.pc = "set" ->
               IF ok
               THEN [st EXCEPT !.cl = Goto(Log(@, "set_config"), "fetch"),
                               !.cs = SetConfig(@, top.conn, st.cl.rls)]
               ELSE failed(Releases(Sends(st, "set_config"), keep))
          [] OTHER ->
               IF ok /\ sql # "bad"
               THEN Returns(Releases(Sends(st, "query"), keep),
                            QueryEnvelope(QueryRows(sql, st.cs[top.conn].ident)))
               ELSE failed(Releases(Sends(st, "query"), keep))

\* search_products_by_similarity (lines 697-766).
search_products_by_similarity_step(c, st, out, ok, keep) ==
    LET top == Top(st.cl)
        failed(from) ==
            Returns([from EXCEPT !.cl = Failed(@)],
                    ErrEnvelope("PostgreSQL semantic search failed", ""))
    IN  CASE top.pc = "acq" ->
               IF out <= 0 THEN failed(st) ELSE Takes(c, st, out, "set")
          [] top.pc = "set" ->
               IF ok
               THEN [st EXCEPT !.cl = Goto(Log(@, "set_config"), "fetch"),
                               !.cs = SetConfig(@, top.conn, st.cl.rls)]
               ELSE failed(Releases(Sends(st, "set_config"), keep))
          [] OTHER ->
               IF ok
               THEN Returns(Releases(Sends(st, "search"), keep),
                            SearchEnvelope(SimilarRows(st.cl.args.threshold,
                                                       st.cl.args.max_rows)))
               ELSE failed(Releases(Sends(st, "search"), keep))

ListLine(kind, table, values) == [kind |-> kind, table |-> table, values |-> values]

\* The top frame's loop is done with its current name; acc gets one more entry.
NextName(st, entry) ==
    [st EXCEPT !.cl = SetTop(@, [Top(@) EXCEPT !.names = Tail(@),
                                               !.acc = Append(@, entry)])]

\* The loop of get_table_metadata_from_list (lines 494-524) from the top of an
\* iteration to its next await: names that do not parse get their error line,
\* the first that parses is looked up; after the last name the connection is
\* released and the lines are returned.
RECURSIVE ListAdvance(_, _)
ListAdvance(st, keep) ==
    LET top == Top(st.cl)
    IN  IF top.names = << >>
        THEN Returns(Releases(st, keep), top.acc)
        ELSE IF ~ValidName(Head(top.names))
        THEN ListAdvance(NextName(st, ListLine("retrieve_error", Head(top.names), << >>)),
                         keep)
        ELSE [st EXCEPT !.cl = Goto(@, "exists")]

\* get_table_metadata_from_list with _get_table_metadata (lines 481-655).
get_table_metadata_from_list_step(c, st, out, ok, keep) ==
    LET top == Top(st.cl)
        table == Head(top.names)
        ident == st.cs[top.conn].ident
        emit(from, line) == ListAdvance(NextName(from, line), keep)
        built(from, enum) ==
            emit([from EXCEPT !.cache = CachePut(@, SchemaData(table, enum))],
                 format_schema_metadata_for_ai(SchemaData(table, enum)))
    IN  CASE top.pc = "begin" ->
               IF top.names = << >>
               THEN Returns(st, <<ListLine("parameter_error", << >>, << >>)>>)
               ELSE [st EXCEPT !.cl = Goto(@, "acq")]
          [] top.pc = "acq" ->
               IF out <= 0
               THEN Raises(st, "RuntimeError")
               ELSE Takes(c, st, out, "set")
          [] top.pc = "set" ->
               IF ok
               THEN ListAdvance([st EXCEPT !.cl = Log(@, "set_config"),
                                           !.cs = SetConfig(@, top.conn, st.cl.rls)],
                                keep)
               ELSE Raises(Releases(Sends(st, "set_config"), keep), "DatabaseError")
          [] top.pc = "exists" ->
               IF ~ok
               THEN emit(Sends(st, "table_exists"),
                         ListLine("retrieve_error", table, << >>))
               ELSE IF ~CatalogHasTable(table)
               THEN emit(Sends(st, "table_exists"), ListLine("error", table, << >>))
               ELSE IF Cached(st.cache, table) # {}
               THEN emit(Sends(st, "table_exists"),
                         format_schema_metadata_for_ai(
                             CHOOSE s \in Cached(st.cache, table) : TRUE))
               ELSE [st EXCEPT !.cl = Goto(Log(@, "table_exists"), "describe")]
          [] top.pc = "describe" ->
               IF ~ok
               THEN emit(Sends(st, "describe"), ListLine("retrieve_error", table, << >>))
               ELSE IF table[2] \in {"stores", "orders"}
               THEN [st EXCEPT !.cl = Goto(Log(@, "describe"), "enum")]
               ELSE built(Sends(st, "describe"), << >>)
          [] OTHER ->
               IF table[2] = "orders"
               THEN built(Sends(st, "years"),
                          IF ok THEN AvailableYears(ident) ELSE << >>)
               ELSE built(Sends(st, "distinct"),
                          IF ok THEN DistinctValues(table, "store_name") ELSE << >>)

\* The table names of the schema, ORDER BY table_name (lines 380-386).
SchemaTableNames == << <<"retail", "orders">>, <<"retail", "stores">> >>

\* get_all_table_names (lines 375-391).
get_all_table_names_step(c, st, out, ok, keep) ==
    IF Top(st.cl).pc = "acq"
    THEN IF out <= 0
         THEN Returns(st, << >>)
         ELSE Takes(c, st, out, "query")
    ELSE Returns(Releases(Sends(st, "table_names"), keep),
                 IF ok THEN SchemaTableNames ELSE << >>)

\* The loop of get_all_schemas (lines 397-403) up to the next call.
GasLoop(st) ==
    LET top == Top(st.cl)
    IN  IF top.names = << >>
        THEN Returns(st, top.acc)
        ELSE Calls(st, "after_gts",
                   Frame("get_table_schema", "begin", Head(top.names), ""))

\* get_all_schemas (lines 393-403).
get_all_schemas_step(c, st, out, ok, keep) ==
    LET top == Top(st.cl)
    IN  CASE top.pc = "begin" ->
               Calls(st, "after_names", Frame("get_all_table_names", "acq", << >>, ""))
          [] top.pc = "after_names" ->
               GasLoop([st EXCEPT !.cl = SetTop(@, [top EXCEPT !.names = st.cl.rv])])
          [] OTHER ->
               IF st.cl.rx # ""
               THEN Raises(st, st.cl.rx)
               ELSE GasLoop(NextName(st, [name |-> Head(top.names)[2],
                                          schema |-> st.cl.rv]))

NoSchemas == [none |-> TRUE, map |-> << >>]

\* ensure_schemas_loaded (lines 93-96).
ensure_schemas_loaded_step(c, st, out, ok, keep) ==
    IF Top(st.cl).pc = "begin"
    THEN IF st.all.none
         THEN Calls(st, "after_gas", Frame("get_all_schemas", "begin", << >>, ""))
         ELSE Returns(st, << >>)
    ELSE IF st.cl.rx # ""
    THEN Raises(st, st.cl.rx)
    ELSE Returns([st EXCEPT !.all = [none |-> FALSE, map |-> st.cl.rv]], << >>)

\* The function of the top frame runs on.
Dispatch(c, st, out, ok, keep) ==
    LET fn == Top(st.cl).fn
    IN  CASE fn = "table_exists" -> table_exists_step(c, st, out, ok, keep)
          [] fn = "column_exists" -> column_exists_step(c, st, out, ok, keep)
          [] fn = "fetch_distinct_values" ->
               fetch_distinct_values_step(c, st, out, ok, keep)
          [] fn = "get_table_schema" -> get_table_schema_step(c, st, out, ok, keep)
          [] fn = "get_table_metadata_string" ->
               get_table_metadata_string_step(c, st, out, ok, keep)
          [] fn = "get_table_metadata_from_list" ->
               get_table_metadata_from_list_step(c, st, out, ok, keep)
          [] fn = "execute_query" -> execute_query_step(c, st, out, ok, keep)
          [] fn = "search_products_by_similarity" ->
               search_products_by_similarity_step(c, st, out, ok, keep)
          [] fn = "get_all_table_names" ->
               get_all_table_names_step(c, st, out, ok, keep)
          [] fn = "get_all_schemas" -> get_all_schemas_step(c, st, out, ok, keep)
          [] OTHER -> ensure_schemas_loaded_step(c, st, out, ok, keep)

\* The places where a function is not suspended: at its start, and where a
\* call it made has just returned or raised.
AtAwait(pc) ==
    pc \notin {"begin", "after_te", "after_ce", "after_fdv", "after_gts",
               "after_names", "after_gas"}

\* The caller runs on until a function suspends or the call is over.
RECURSIVE Settle(_, _, _)
Settle(c, st, keep) ==
    IF st.cl.stack = << >> \/ AtAwait(Top(st.cl).pc)
    THEN st
    ELSE Settle(c, Dispatch(c, st, 0, TRUE, keep), keep)

Commit(c, st) ==
    /\ callers' = [callers EXCEPT ![c] = st.cl]
    /\ conns' = st.cs
    /\ schema_cache' = st.cache
    /\ all_schemas' = st.all

\* ------------------------------------------------------------- actions

\* A caller calls a public operation of the provider, which runs to its
\* first await.
StartCall(c, op, rls, args, frame) ==
    /\ callers[c].on
    /\ callers[c].stack = << >>
    /\ Commit(c, Settle(c, [Cur(c) EXCEPT !.cl =
                                [IdleCaller(TRUE) EXCEPT !.op = op, !.rls = rls,
                                    !.args = args, !.stack = <<frame>>]],
                        TRUE))
    /\ ncalls' = ncalls + 1
    /\ UNCHANGED connection_pool
    /\ UNCHANGED <<relayVars, handlerVars, scriptVars>>

CallTableExists(tables) ==
    /\ ncalls < MaxCalls
    /\ \E c \in Callers : \E table \in tables :
            StartCall(c, "table_exists", "", [NoArgs EXCEPT !.table = table],
                      Frame("table_exists", "acq", table, ""))

CallColumnExists(tables, columns) ==
    /\ ncalls < MaxCalls
    /\ \E c \in Callers : \E table \in tables : \E column \in columns :
            StartCall(c, "column_exists", "",
                      [NoArgs EXCEPT !.table = table, !.column = column],
                      Frame("column_exists", "acq", table, column))

CallFetchDistinctValues(tables, columns) ==
    /\ ncalls < MaxCalls
    /\ \E c \in Callers : \E table \in tables : \E column \in columns :
            StartCall(c, "fetch_distinct_values", "",
                      [NoArgs EXCEPT !.table = table, !.column = column],
                      Frame("fetch_distinct_values", "begin", table, column))

CallGetTableSchema(tables, ids) ==
    /\ ncalls < MaxCalls
    /\ \E c \in Callers : \E table \in tables : \E rls \in ids[c] :
            StartCall(c, "get_table_schema", rls, [NoArgs EXCEPT !.table = table],
                      Frame("get_table_schema", "begin", table, ""))

CallGetTableMetadataString(tables, ids) ==
    /\ ncalls < MaxCalls
    /\ \E c \in Callers : \E table \in tables : \E rls \in ids[c] :
            StartCall(c, "get_table_metadata_string", rls, [NoArgs EXCEPT !.table = table],
                      Frame("get_table_metadata_string", "begin", table, ""))

CallGetTableMetadataFromList(lists, ids) ==
    /\ ncalls < MaxCalls
    /\ \E c \in Callers : \E names \in lists : \E rls \in ids[c] :
            StartCall(c, "get_table_metadata_from_list", rls,
                      [NoArgs EXCEPT !.names = names],
                      [Frame("get_table_metadata_from_list", "begin", << >>, "")
                          EXCEPT !.names = names])

CallExecuteQuery(sqls, ids) ==
    /\ ncalls < MaxCalls
    /\ \E c \in Callers : \E sql \in sqls : \E rls \in ids[c] :
            StartCall(c, "execute_query", rls, [NoArgs EXCEPT !.sql = sql],
                      Frame("execute_query", "acq", << >>, ""))

CallSearchProductsBySimilarity(thresholds, limits, ids) ==
    /\ ncalls < MaxCalls
    /\ \E c \in Callers : \E rls \in ids[c] :
        \E p \in thresholds : \E max_rows \in limits :
            StartCall(c, "search_products_by_similarity", rls,
                      [NoArgs EXCEPT !.threshold = p, !.max_rows = max_rows],
                      Frame("search_products_by_similarity", "acq", << >>, ""))

CallGetAllSchemas(ids) ==
    /\ ncalls < MaxCalls
    /\ \E c \in Callers : \E rls \in ids[c] :
            StartCall(c, "get_all_schemas", rls, NoArgs,
                      Frame("get_all_schemas", "begin", << >>, ""))

CallEnsureSchemasLoaded(ids) ==
    /\ ncalls < MaxCalls
    /\ \E c \in Callers : \E rls \in ids[c] :
            StartCall(c, "ensure_schemas_loaded", rls, NoArgs,
                      Frame("ensure_schemas_loaded", "begin", << >>, ""))

\* Whether the statements sent to the database may fail.
Healthy == {TRUE}
Faulty == BOOLEAN

\* Whether a released connection keeps the session identity set on it.
Kept == {TRUE}
KeptOrReset == BOOLEAN

\* The await caller c is suspended at in fn completes, and the caller runs
\* to its next await; oks tells whether the statement awaited may fail,
\* keeps what a release may do to the session.
Step(c, fn, oks, keeps) ==
    /\ Running(c, fn)
    /\ \E out \in Outcomes(c) : \E ok \in oks : \E keep \in keeps :
          Commit(c, Settle(c, Dispatch(c, Cur(c), out, ok, keep), keep))

TableExists(oks, keeps) ==
    /\ \E c \in Callers : Step(c, "table_exists", oks, keeps)
    /\ UNCHANGED <<connection_pool, ncalls>>
    /\ UNCHANGED <<relayVars, handlerVars, scriptVars>>

ColumnExists(oks, keeps) ==
    /\ \E c \in Callers : Step(c, "column_exists", oks, keeps)
    /\ UNCHANGED <<connection_pool, ncalls>>
    /\ UNCHANGED <<relayVars, handlerVars, scriptVars>>

FetchDistinctValues(oks, keeps) ==
    /\ \E c \in Callers : Step(c, "fetch_distinct_values", oks, keeps)
    /\ UNCHANGED <<connection_pool, ncalls>>
    /\ UNCHANGED <<relayVars, handlerVars, scriptVars>>

GetTableSchema(oks, keeps) ==
    /\ \E c \in Callers : Step(c, "get_table_schema", oks, keeps)
    /\ UNCHANGED <<connection_pool, ncalls>>
    /\ UNCHANGED <<relayVars, handlerVars, scriptVars>>

GetTableMetadataFromList(oks, keeps) ==
    /\ \E c \in Callers : Step(c, "get_table_metadata_from_list", oks, keeps)
    /\ UNCHANGED <<connection_pool, ncalls>>
    /\ UNCHANGED <<relayVars, handlerVars, scriptVars>>

ExecuteQuery(oks, keeps) ==
    /\ \E c \in Callers : Step(c, "execute_query", oks, keeps)
    /\ UNCHANGED <<connection_pool, ncalls>>
    /\ UNCHANGED <<relayVars, handlerVars, scriptVars>>

SearchProductsBySimilarity(oks, keeps) ==
    /\ \E c \in Callers : Step(c, "search_products_by_similarity", oks, keeps)
    /\ UNCHANGED <<connection_pool, ncalls>>
    /\ UNCHANGED <<relayVars, handlerVars, scriptVars>>

GetAllTableNames(oks, keeps) ==
    /\ \E c \in Callers : Step(c, "get_all_table_names", oks, keeps)
    /\ UNCHANGED <<connection_pool, ncalls>>
    /\ UNCHANGED <<relayVars, handlerVars, scriptVars>>


LifecycleRunning ==
    \E c \in Callers :
        /\ callers[c].stack # << >>
        /\ callers[c].stack[1].fn \in {"create_pool", "close_pool"}

\* create_pool and close_pool are called by the owner of the provider, one
\* at a time; the call runs to its await, or returns at once.
StartLifecycle(c, op, awaits, pool) ==
    /\ callers[c].on
    /\ callers[c].stack = << >>
    /\ LET cl == [IdleCaller(TRUE) EXCEPT !.op = op,
                                          !.stack = <<Frame(op, "await", << >>, "")>>]
       IN  callers' = [callers EXCEPT ![c] = IF awaits THEN cl ELSE Return(cl, << >>)]
    /\ connection_pool' = pool
    /\ UNCHANGED <<all_schemas, schema_cache, conns, ncalls>>
    /\ UNCHANGED <<relayVars, handlerVars, scriptVars>>

\* create_pool up to asyncpg.create_pool (lines 72-76).
CallCreatePool ==
    /\ ~LifecycleRunning
    /\ \E c \in Callers :
          StartLifecycle(c, "create_pool", connection_pool = "None", connection_pool)

\* create_pool from asyncpg.create_pool on (lines 76-91).
CreatePool ==
    \E c \in Callers : \E ok \in BOOLEAN :
        /\ Running(c, "create_pool")
        /\ IF ok
           THEN /\ callers' = [callers EXCEPT ![c] = Return(@, << >>)]
                /\ connection_pool' = "open"
           ELSE /\ callers' = [callers EXCEPT ![c] = Raise(@, "OSError")]
                /\ UNCHANGED connection_pool
        /\ UNCHANGED <<all_schemas, schema_cache, conns, ncalls>>
        /\ UNCHANGED <<relayVars, handlerVars, scriptVars>>

\* close_pool up to connection_pool.close() (lines 98-101): from here on
\* acquire raises.
CallClosePool ==
    /\ ~LifecycleRunning
    /\ \E c \in Callers :
          StartLifecycle(c, "close_pool", connection_pool # "None",
                         IF connection_pool = "None" THEN "None" ELSE "closing")

\* close_pool leaving the per-table cache as it is.
close_pool_keep_cache ==
    [connection_pool |-> "None", all_schemas |-> NoSchemas,
     schema_cache |-> schema_cache]

\* What close_pool assigns once the pool has closed (lines 102-104).
close_pool_teardown ==
    [connection_pool |-> "None", all_schemas |-> NoSchemas, schema_cache |-> {}]

\* close_pool from connection_pool.close() on (lines 101-105): close()
\* returns when every connection has been released.
ClosePool ==
    \E c \in Callers :
        /\ Running(c, "close_pool")
        /\ \A k \in Conns : conns[k].holder = 0
        /\ callers' = [callers EXCEPT ![c] = Return(@, << >>)]
        /\ connection_pool' = close_pool_teardown.connection_pool
        /\ all_schemas' = close_pool_teardown.all_schemas
        /\ schema_cache' = close_pool_teardown.schema_cache
        /\ conns' = [k \in Conns |-> [holder |-> 0, ident |-> ""]]
        /\ UNCHANGED ncalls
        /\ UNCHANGED <<relayVars, handlerVars, scriptVars>>

\* The provider after __init__ (lines 55-62), with the callers c for which
\* on[c] holds.
InitProvider(on) ==
    /\ connection_pool = "None"
    /\ all_schemas = NoSchemas
    /\ schema_cache = {}
    /\ conns = [k \in Conns |-> [holder |-> 0, ident |-> ""]]
    /\ callers = [c \in Callers |-> IdleCaller(on[c])]
    /\ ncalls = 0

NoCallers == [c \in Callers |-> FALSE]
OneCaller == [c \in Callers |-> c = 1]
TwoCallers == [c \in Callers |-> c <= 2]
AllCallers == [c \in Callers |-> TRUE]

\* =========================================================================
\*  SKU assigner: generate_skus.py
\* =========================================================================

UpperLetters == <<"A", "B", "C", "D", "E", "F", "G", "H", "I", "J", "K", "L", "M", "N", "O", "P", "Q", "R", "S", "T", "U", "V", "W", "X", "Y", "Z">>
LowerLetters == <<"a", "b", "c", "d", "e", "f", "g", "h", "i", "j", "k", "l", "m", "n", "o", "p", "q", "r", "s", "t", "u", "v", "w", "x", "y", "z">>

\* str.upper() on the characters the catalogs use.
UpperChar(ch) ==
    IF \E i \in 1..26 : LowerLetters[i] = ch
    THEN UpperLetters[CHOOSE i \in 1..26 : LowerLetters[i] = ch]
    ELSE ch

upper(t) == [i \in 1..Len(t) |-> UpperChar(t[i])]

\* t[:n]
Take(t, n) == SubSeq(t, 1, Min(n, Len(t)))

\* str.replace('&', 'AND')
RECURSIVE ReplaceAmp(_)
ReplaceAmp(t) ==
    IF t = << >> THEN << >>
    ELSE IF t[1] = "&" THEN <<"A", "N", "D">> \o ReplaceAmp(Tail(t))
    ELSE <<t[1]>> \o ReplaceAmp(Tail(t))

\* str.split(): the maximal runs of non-whitespace characters, in order.
RECURSIVE SplitWords(_, _)
SplitWords(t, word) ==
    IF t = << >> THEN (IF word = << >> THEN << >> ELSE <<word>>)
    ELSE IF t[1] \in Whitespace
         THEN (IF word = << >> THEN << >> ELSE <<word>>) \o SplitWords(Tail(t), << >>)
    ELSE SplitWords(Tail(t), Append(word, t[1]))

split(t) == SplitWords(t, << >>)

StopWords == { <<"A", "N", "D">>, <<"T", "H", "E">>, <<"O", "F">>, <<"F", "O", "R">> }

RECURSIVE Keep(_, _)
Keep(s, ok) ==
    IF s = << >> THEN << >>
    ELSE IF s[1] \in ok THEN <<s[1]>> \o Keep(Tail(s), ok)
    ELSE Keep(Tail(s), ok)

RECURSIVE Drop(_, _)
Drop(s, bad) ==
    IF s = << >> THEN << >>
    ELSE IF s[1] \in bad THEN Drop(Tail(s), bad)
    ELSE <<s[1]>> \o Drop(Tail(s), bad)

Range(s) == { s[i] : i \in 1..Len(s) }

\* generate_category_code (generate_skus.py 44-69).  A category without any
\* word makes the source raise IndexError; the catalogs here have none.
generate_category_code(category) ==
    LET clean_category == ReplaceAmp(upper(category))
        words == split(clean_category)
    IN  IF Len(words) = 1 THEN Take(words[1], 2)
        ELSE IF Len(words) = 2 THEN <<words[1][1], words[2][1]>>
        ELSE LET significant_words == Drop(words, StopWords)
             IN  IF Len(significant_words) >= 2
                 THEN <<significant_words[1][1], significant_words[2][1]>>
                 ELSE <<words[1][1], words[2][1]>>

Vowels == {"A", "E", "I", "O", "U"}

\* generate_type_code (generate_skus.py 72-95).
generate_type_code(product_type) ==
    LET clean_type == Keep(upper(product_type), Range(UpperLetters))
    IN  IF Len(clean_type) <= 3 THEN clean_type
        ELSE IF Len(clean_type) <= 6 THEN Take(clean_type, 3)
        ELSE LET consonants == Drop(Tail(clean_type), Vowels)
             IN  IF Len(consonants) >= 2
                 THEN <<clean_type[1]>> \o Take(consonants, 2)
                 ELSE Take(clean_type, 3)

DigitChars == <<"0", "1", "2", "3", "4", "5", "6", "7", "8", "9">>

\* str(n) for n >= 0.
RECURSIVE Decimal(_)
Decimal(n) ==
    IF n < 10 THEN <<DigitChars[n + 1]>>
    ELSE Decimal(n \div 10) \o <<DigitChars[(n % 10) + 1]>>

\* f"{n:03d}": zero-padded to at least three digits.
Pad3(n) ==
    LET d == Decimal(n)
    IN  IF Len(d) >= 3 THEN d ELSE [i \in 1..(3 - Len(d)) |-> "0"] \o d

\* generate_sku (generate_skus.py 98-102).
generate_sku(category, product_type, number) ==
    generate_category_code(category) \o generate_type_code(product_type) \o Pad3(number)

HAND_TOOLS == <<"H", "A", "N", "D", " ", "T", "O", "O", "L", "S">>
LUMBER == <<"L", "U", "M", "B", "E", "R", " ", "&", " ", "B", "U", "I", "L", "D", "I", "N", "G", " ", "M", "A", "T", "E", "R", "I", "A", "L", "S">>
HAMMERS == <<"H", "A", "M", "M", "E", "R", "S">>
SCREWDRIVERS == <<"S", "C", "R", "E", "W", "D", "R", "I", "V", "E", "R", "S">>
PLYWOOD == <<"P", "L", "Y", "W", "O", "O", "D">>
Ply == <<"P", "l", "y">>
\* ---- the catalog: main_categories flattened to its (category, type) entries
\* in iteration order; an entry's value is a list or not, a list element is a
\* product dict or not (the seasonal multipliers are a list of numbers).
MaxProducts == 2
MaxRuns == 2
MaxRetries == 1000

NoSku == << >>
Product(sku) == [dict |-> TRUE, sku |-> sku]
NonDict == [dict |-> FALSE, sku |-> NoSku]
Bucket(category, product_type, products) ==
    [category |-> category, product_type |-> product_type, list |-> TRUE,
     products |-> products]
NonList(category, product_type) ==
    [category |-> category, product_type |-> product_type, list |-> FALSE,
     products |-> << >>]

LBPLY(n) == <<"L", "B", "P", "L", "Y">> \o Pad3(n)

ProductKinds == { Product(NoSku), Product(LBPLY(1)), Product(LBPLY(2)), NonDict }
ProductLists == UNION { [1..n -> ProductKinds] : n \in 0..MaxProducts }

\* Two entries whose keys differ and whose code prefix is the same (LBPLY);
\* the second entry holds at most one product.
SmallCatalogs ==
    { <<Bucket(LUMBER, PLYWOOD, p1), Bucket(LUMBER, Ply, p2)>> :
        p1 \in ProductLists, p2 \in { p \in ProductLists : Len(p) <= 1 } }

\* An entry that is no list, and the list of seasonal multipliers.
MixedCatalog ==
    <<NonList(HAND_TOOLS, Ply),
      Bucket(HAND_TOOLS, HAMMERS, <<Product(NoSku), Product(NoSku)>>),
      Bucket(HAND_TOOLS, SCREWDRIVERS, <<NonDict, Product(NoSku)>>),
      Bucket(LUMBER, PLYWOOD, <<NonDict, NonDict>>)>>

\* n products carrying LBPLY001 .. LBPLY<n>, then one product without a SKU.
TakenRun(n) ==
    <<Bucket(LUMBER, PLYWOOD, [i \in 1..(n + 1) |->
                                 IF i <= n THEN Product(LBPLY(i)) ELSE Product(NoSku)])>>

Catalogs == SmallCatalogs \cup {MixedCatalog, TakenRun(MaxRetries + 1)}

\* f"{category_name}/{product_type}"
category_type_key(bucket) == bucket.category \o <<"/">> \o bucket.product_type

Keys(data) == { category_type_key(data[b]) : b \in 1..Len(data) }

\* The products a traversal visits: list elements that are dicts.
Visited(data) ==
    UNION { { <<b, i>> : i \in { j \in 1..Len(data[b].products) :
                                    data[b].list /\ data[b].products[j].dict } } :
            b \in 1..Len(data) }

\* collect_existing_skus (generate_skus.py 105-121).
collect_existing_skus(data) ==
    { data[p[1]].products[p[2]].sku : p \in { q \in Visited(data) :
                                  data[q[1]].products[q[2]].sku # NoSku } }

\* analyze_missing_skus (generate_skus.py 124-152): the count main looks at.
missing_skus(data) ==
    Cardinality({ p \in Visited(data) : data[p[1]].products[p[2]].sku = NoSku })

\* The position of the first list element at or after <<b, i>>; <<0, 0>> past
\* the end.
RECURSIVE NextPos(_, _, _)
NextPos(data, b, i) ==
    IF b > Len(data) THEN <<0, 0>>
    ELSE IF data[b].list /\ i <= Len(data[b].products) THEN <<b, i>>
    ELSE NextPos(data, b + 1, 1)

\* The loop "while final_sku in existing_skus" (generate_skus.py 184-193),
\* entered with counter = 1.  Iteration k advances the bucket counter to
\* number + k and tries that number; the loop ends after the first iteration
\* whose candidate is free, and the safety break ends it after iteration
\* MaxRetries (counter = MaxRetries + 1) whatever the candidate.
EnsureUnique(bucket, existing, base_sku, number, conflicts) ==
    LET candidate(k) == generate_sku(bucket.category, bucket.product_type, number + k)
        free(k) == candidate(k) \notin existing
        last == IF \E k \in 1..MaxRetries : free(k)
                THEN CHOOSE k \in 1..MaxRetries :
                        free(k) /\ \A j \in 1..(k - 1) : ~free(j)
                ELSE MaxRetries
    IN  IF base_sku \notin existing
        THEN [sku |-> base_sku, number |-> number, conflicts |-> conflicts]
        ELSE [sku |-> candidate(last), number |-> number + last,
              conflicts |-> conflicts + last]

\* "if not dry_run: product['sku'] = final_sku" (generate_skus.py 203-206).
AssignSku_always(data, dry, b, i, sku) == [data EXCEPT ![b].products[i].sku = sku]
AssignSku(data, dry, b, i, sku) ==
    IF dry THEN data ELSE [data EXCEPT ![b].products[i].sku = sku]

NoStats == [skus_generated |-> 0, skus_assigned |-> 0, conflicts_resolved |-> 0]

\* main up to the call of generate_and_assign_skus (generate_skus.py 279-337):
\* load, analyse, return early or make the backup.
SkuMain ==
    /\ sku_pc = "idle"
    /\ \E d \in BOOLEAN, no_backup \in BOOLEAN :
         /\ dry_run' = d
         /\ product_data' = sku_file
         /\ IF missing_skus(sku_file) = 0
            THEN /\ sku_pc' = "done"
                 /\ sku_runs' = Append(sku_runs, [dry_run |-> d, input |-> sku_file,
                                                  assignments |-> << >>, writes |-> << >>])
                 /\ sku_writes' = << >>
            ELSE /\ sku_pc' = "generate"
                 /\ sku_writes' = (IF ~d /\ ~no_backup THEN <<"backup">> ELSE << >>)
                 /\ UNCHANGED sku_runs
    /\ existing_skus' = {}
    /\ sku_counters' = [k \in Keys(sku_file) |-> 0]
    /\ assignment_log' = << >>
    /\ sku_stats' = NoStats
    /\ sku_pos' = <<0, 0>>
    /\ UNCHANGED sku_file
    /\ UNCHANGED <<relayVars, handlerVars, providerVars, imgVars, invVars, ordVars, runVars>>

\* generate_and_assign_skus before its loop (generate_skus.py 157-165).
SkuCollect ==
    /\ sku_pc = "generate"
    /\ existing_skus' = collect_existing_skus(product_data)
    /\ sku_pos' = NextPos(product_data, 1, 1)
    /\ sku_pc' = "loop"
    /\ UNCHANGED <<sku_file, product_data, dry_run, sku_counters, assignment_log,
                   sku_stats, sku_writes, sku_runs>>
    /\ UNCHANGED <<relayVars, handlerVars, providerVars, imgVars, invVars, ordVars, runVars>>

\* One iteration of "for i, product in enumerate(products)" (generate_skus.py
\* 175-210).
SkuAssign ==
    /\ sku_pc = "loop"
    /\ sku_pos # <<0, 0>>
    /\ LET b == sku_pos[1]
           i == sku_pos[2]
           bucket == product_data[b]
           product == bucket.products[i]
           key == category_type_key(bucket)
           number == sku_counters[key] + 1
           base_sku == generate_sku(bucket.category, bucket.product_type, number)
           u == EnsureUnique(bucket, existing_skus, base_sku, number,
                             sku_stats.conflicts_resolved)
       IN  /\ IF product.dict /\ product.sku = NoSku
              THEN /\ sku_counters' = [sku_counters EXCEPT ![key] = u.number]
                   /\ assignment_log' = Append(assignment_log,
                          [category |-> bucket.category,
                           product_type |-> bucket.product_type,
                           product_index |-> i - 1,
                           generated_sku |-> u.sku])
                   /\ product_data' = AssignSku(product_data, dry_run, b, i, u.sku)
                   /\ existing_skus' = existing_skus \cup {u.sku}
                   /\ sku_stats' =
                        [skus_generated |-> sku_stats.skus_generated + 1,
                         skus_assigned |-> sku_stats.skus_assigned
                                           + (IF dry_run THEN 0 ELSE 1),
                         conflicts_resolved |-> u.conflicts]
              ELSE UNCHANGED <<sku_counters, assignment_log, product_data,
                               existing_skus, sku_stats>>
           /\ sku_pos' = NextPos(product_data, b, i + 1)
    /\ UNCHANGED <<sku_file, dry_run, sku_pc, sku_writes, sku_runs>>
    /\ UNCHANGED <<relayVars, handlerVars, providerVars, imgVars, invVars, ordVars, runVars>>

\* The loop is over: main saves unless this is a dry run (generate_skus.py
\* 212-215, 339-351; save_product_data 218-226).
SkuSave ==
    /\ sku_pc = "loop"
    /\ sku_pos = <<0, 0>>
    /\ LET w == IF dry_run THEN sku_writes ELSE Append(sku_writes, "save")
       IN  /\ sku_writes' = w
           /\ sku_file' = (IF dry_run THEN sku_file ELSE product_data)
           /\ sku_runs' = Append(sku_runs, [dry_run |-> dry_run, input |-> sku_file,
                                            assignments |-> assignment_log,
                                            writes |-> w])
    /\ sku_pc' = "done"
    /\ UNCHANGED <<product_data, dry_run, existing_skus, sku_counters,
                   assignment_log, sku_stats, sku_pos>>
    /\ UNCHANGED <<relayVars, handlerVars, providerVars, imgVars, invVars, ordVars, runVars>>

\* The script is run again on the file as it now is.
SkuRerun ==
    /\ sku_pc = "done"
    /\ Len(sku_runs) < MaxRuns
    /\ sku_pc' = "idle"
    /\ UNCHANGED <<sku_file, product_data, dry_run, existing_skus, sku_counters,
                   assignment_log, sku_stats, sku_pos, sku_writes, sku_runs>>
    /\ UNCHANGED <<relayVars, handlerVars, providerVars, imgVars, invVars, ordVars, runVars>>


InitSku(files) ==
    /\ sku_file \in files
    /\ product_data = << >>
    /\ sku_pc = "idle"
    /\ dry_run = FALSE
    /\ existing_skus = {}
    /\ sku_counters = << >>
    /\ assignment_log = << >>
    /\ sku_stats = NoStats
    /\ sku_pos = <<0, 0>>
    /\ sku_writes = << >>
    /\ sku_runs = << >>

NextSku == SkuMain \/ SkuCollect \/ SkuAssign \/ SkuSave \/ SkuRerun

\* =========================================================================
\*  Product image generator: image_generation.py
\* =========================================================================

MaxImgProducts == 3

\* A list element of the catalog: a product without an image_path, a product
\* with one, or an element that is no product (no dict, or no 'name').
ImgKinds == {"needs", "has", "invalid"}
ImgCatalogs == [1..MaxImgProducts -> ImgKinds]
ImgLimits == {0, 1, 2}          \* 0: limit is None

\* needs_image (image_generation.py 137-139).
needs_image(product) == product # "has"

\* The products of a catalog file that carry an image_path; a file that was
\* opened for writing and not written to its end holds no catalog.
Recorded(file) ==
    IF file.partial THEN {}
    ELSE { i \in 1..Len(file.products) : file.products[i] = "has" }

\* The images this run generated whose image_path the catalog file does not hold.
Unrecorded == img_files \ Recorded(img_disk)

\* After save_product_data: on to the next product, or the return after the
\* limit was reached (image_generation.py 190-193, 212).
AfterSave == IF img_pc \in {"open_last", "dump_last"} THEN "done" ELSE "sleep"

\* "for i, product in enumerate(products)" up to the call of generate_image
\* (image_generation.py 184-203).
ImgNext ==
    /\ img_pc = "next"
    /\ IF img_i > Len(img_mem)
       THEN img_pc' = "done" /\ UNCHANGED img_i
       ELSE IF img_mem[img_i] = "invalid"
       THEN img_i' = img_i + 1 /\ UNCHANGED img_pc
       ELSE IF img_limit # 0 /\ generated_count >= img_limit
       THEN img_pc' = "open_last" /\ UNCHANGED img_i
       ELSE IF ~needs_image(img_mem[img_i])
       THEN img_i' = img_i + 1 /\ UNCHANGED img_pc
       ELSE img_pc' = "generate" /\ UNCHANGED img_i
    /\ UNCHANGED <<img_disk, img_mem, img_limit, generated_count, img_files>>
    /\ UNCHANGED <<relayVars, handlerVars, providerVars, skuVars, invVars, ordVars, runVars>>

\* generate_image and the branch on its result (image_generation.py 93-135,
\* 201-220): the image file is written and its path returned, or None.
ImgGenerate ==
    /\ img_pc = "generate"
    /\ \E ok \in BOOLEAN :
         IF ok
         THEN /\ img_files' = img_files \cup {img_i}
              /\ img_mem' = [img_mem EXCEPT ![img_i] = "has"]
              /\ generated_count' = generated_count + 1
              /\ img_pc' = "open"
              /\ UNCHANGED img_i
         ELSE /\ img_pc' = "next"
              /\ img_i' = img_i + 1
              /\ UNCHANGED <<img_files, img_mem, generated_count>>
    /\ UNCHANGED <<img_disk, img_limit>>
    /\ UNCHANGED <<relayVars, handlerVars, providerVars, skuVars, invVars, ordVars, runVars>>

\* save_product_data, open(path, 'w') (image_generation.py 68-71): the file
\* is truncated, or open raises and the except clause prints and returns.
ImgSaveOpen ==
    /\ img_pc \in {"open", "open_last"}
    /\ \E ok \in BOOLEAN :
         IF ok
         THEN /\ img_disk' = [img_disk EXCEPT !.partial = TRUE]
              /\ img_pc' = (IF img_pc = "open" THEN "dump" ELSE "dump_last")
         ELSE /\ img_pc' = AfterSave
              /\ UNCHANGED img_disk
    /\ UNCHANGED <<img_mem, img_limit, img_i, generated_count, img_files>>
    /\ UNCHANGED <<relayVars, handlerVars, providerVars, skuVars, invVars, ordVars, runVars>>

\* save_product_data, json.dump (image_generation.py 72-75): the catalog is
\* written out, or the write raises and the except clause prints and returns.
ImgSaveDump ==
    /\ img_pc \in {"dump", "dump_last"}
    /\ \E ok \in BOOLEAN :
         img_disk' = (IF ok THEN [products |-> img_mem, partial |-> FALSE] ELSE img_disk)
    /\ img_pc' = AfterSave
    /\ UNCHANGED <<img_mem, img_limit, img_i, generated_count, img_files>>
    /\ UNCHANGED <<relayVars, handlerVars, providerVars, skuVars, invVars, ordVars, runVars>>

\* time.sleep(delay), then the next element (image_generation.py 214-216).
ImgSleep ==
    /\ img_pc = "sleep"
    /\ img_pc' = "next"
    /\ img_i' = img_i + 1
    /\ UNCHANGED <<img_disk, img_mem, img_limit, generated_count, img_files>>
    /\ UNCHANGED <<relayVars, handlerVars, providerVars, skuVars, invVars, ordVars, runVars>>

\* The process dies.
ImgCrash ==
    /\ img_pc \notin {"off", "done", "crashed"}
    /\ img_pc' = "crashed"
    /\ UNCHANGED <<img_disk, img_mem, img_limit, img_i, generated_count, img_files>>
    /\ UNCHANGED <<relayVars, handlerVars, providerVars, skuVars, invVars, ordVars, runVars>>

\* DalleImageGenerator() has loaded the catalog and process_products starts.
InitImg ==
    /\ \E c \in ImgCatalogs :
         /\ img_disk = [products |-> c, partial |-> FALSE]
         /\ img_mem = c
    /\ img_limit \in ImgLimits
    /\ img_pc = "next"
    /\ img_i = 1
    /\ generated_count = 0
    /\ img_files = {}

IdleImg ==
    /\ img_disk = [products |-> << >>, partial |-> FALSE]
    /\ img_mem = << >>
    /\ img_limit = 0
    /\ img_pc = "off"
    /\ img_i = 1
    /\ generated_count = 0
    /\ img_files = {}

NextImg == ImgNext \/ ImgGenerate \/ ImgSaveOpen \/ ImgSaveDump \/ ImgSleep \/ ImgCrash

\* =========================================================================
\*  Database generators: generate_zava_postgres.py, generate_zava_sql_server.py
\* =========================================================================

\* ---- inventory.  Weights, multipliers and uniform draws are in hundredths;
\* a random draw is the underlying uniform variate in [0, 1), in hundredths.
NStores == 2
NProducts == 2
Variates == {0, 50, 99}

\* store -> customer_distribution_weight, product -> seasonal average of its
\* category (1.0 when the reference data has none).
StoreWeight == [s \in 1..NStores |-> IF s % 2 = 1 THEN 100 ELSE 300]
SeasonalAvg == [p \in 1..NProducts |-> IF p % 2 = 1 THEN 100 ELSE 125]

\* random.randint(a, b) and random.uniform(a, b) of a variate.
randint(a, b, r) == a + (r * (b - a + 1)) \div 100
uniform(a, b, r) == a + ((b - a) * r) \div 100

\* The top-level def statements of generate_zava_sql_server.py that bind
\* insert_inventory, build_product_lookup and main, in file order, and the
\* statement that calls main.
SqlServerStatements ==
    <<[def |-> "insert_inventory", line |-> 1130],
      [def |-> "build_product_lookup", line |-> 1191],
      [def |-> "main", line |-> 1886],
      [def |-> "build_product_lookup", line |-> 1960],
      [def |-> "insert_inventory", line |-> 2003],
      [def |-> "", line |-> 2034]>>

\* generate_zava_postgres.py binds each name once.
PostgresInventoryLine == 1132

\* insert_inventory of generate_zava_postgres.py 1132-1186 and of
\* generate_zava_sql_server.py 1130-1189: the stock level of one pair.
weighted_stock_level(store, product, r1, r2) ==
    LET base_stock == randint(10, 100, r1)
        stock_level == (base_stock * StoreWeight[store] * SeasonalAvg[product]
                          * uniform(50, 150, r2)) \div 1000000
    IN  Max(1, stock_level)

\* insert_inventory of generate_zava_sql_server.py 2003-2033.
flat_stock_level(store, product, r1, r2) == randint(10, 500, r1)

\* The body a call of insert_inventory runs, by the line of the def bound to
\* the name.
stock_level(line, store, product, r1, r2) ==
    IF line = 2003 THEN flat_stock_level(store, product, r1, r2)
    ELSE weighted_stock_level(store, product, r1, r2)

InvPairs == (1..NStores) \X (1..NProducts)

\* Executing the SQL Server module: the next top-level def statement binds
\* its name in the module's globals.
SqlServerDefine ==
    /\ inv_stmt <= Len(SqlServerStatements)
    /\ SqlServerStatements[inv_stmt].def # ""
    /\ inv_globals' = [inv_globals EXCEPT
                         ![SqlServerStatements[inv_stmt].def] =
                             SqlServerStatements[inv_stmt].line]
    /\ inv_stmt' = inv_stmt + 1
    /\ UNCHANGED <<inv_pg, inv_sql>>
    /\ UNCHANGED <<relayVars, handlerVars, providerVars, skuVars, imgVars, ordVars, runVars>>

\* main runs in both generators and insert_inventory reaches one more
\* (store, product) pair, with the same two variates in both.
InsertInventoryPair ==
    /\ inv_stmt <= Len(SqlServerStatements)
    /\ SqlServerStatements[inv_stmt].def = ""
    /\ \E p \in InvPairs, r1 \in Variates, r2 \in Variates :
         /\ inv_pg[p] = 0
         /\ \A q \in InvPairs : inv_pg[q] = 0 =>
               (p[1] < q[1] \/ (p[1] = q[1] /\ p[2] <= q[2]))
         /\ inv_pg' = [inv_pg EXCEPT ![p] =
                         stock_level(PostgresInventoryLine, p[1], p[2], r1, r2)]
         /\ inv_sql' = [inv_sql EXCEPT ![p] =
                         stock_level(inv_globals["insert_inventory"], p[1], p[2], r1, r2)]
    /\ UNCHANGED <<inv_globals, inv_stmt>>
    /\ UNCHANGED <<relayVars, handlerVars, providerVars, skuVars, imgVars, ordVars, runVars>>

InitInv ==
    /\ inv_globals = [n \in {"insert_inventory", "build_product_lookup", "main"} |-> 0]
    /\ inv_stmt = 1
    /\ inv_pg = [p \in InvPairs |-> 0]
    /\ inv_sql = [p \in InvPairs |-> 0]

NextInv == SqlServerDefine \/ InsertInventoryPair

\* ---- order items.  Amounts the generator computes are exact rationals in
\* units of 10^-7 (the source computes them in binary floating point); stored
\* amounts are in cents.
MaxItems == 2

BasePrices == {1000, 1493}               \* products.base_price, in cents
PriceFactors == {800, 1000, 1004, 1200}  \* random.uniform(0.8, 1.2), in 10^-3
Quantities == {1, 2, 5}
Discounts == {0, 5, 25}                  \* 0: the 85% branch without a discount

\* One element of order_items_data (generate_zava_postgres.py 1303-1321,
\* generate_zava_sql_server.py 1332-1350).
OrderItem(base_price, factor, quantity, pct) ==
    LET unit_price == base_price * factor * 100
        \* (unit_price * quantity * discount_percent) / 100
        discount_amount == IF pct = 0 THEN 0
                           ELSE base_price * factor * quantity * pct
        total_amount == (unit_price * quantity) - discount_amount
    IN  [quantity |-> quantity, unit_price |-> unit_price,
         discount_percent |-> pct, discount_amount |-> discount_amount,
         total_amount |-> total_amount]

\* A non-negative amount as a DECIMAL(10,2) column keeps it, in cents.
Decimal2(x) == (x + 50000) \div 100000

\* The row the INSERT leaves in retail.order_items.
StoredRow(item) ==
    [quantity |-> item.quantity,
     unit_price |-> Decimal2(item.unit_price),
     discount_percent |-> item.discount_percent,
     discount_amount |-> Decimal2(item.discount_amount),
     total_amount |-> Decimal2(item.total_amount)]

\* insert_orders computes one more order item.
GenerateOrderItem ==
    /\ Len(order_items_data) + Cardinality(order_items) < MaxItems
    /\ \E b \in BasePrices, f \in PriceFactors, q \in Quantities, pct \in Discounts :
         order_items_data' = Append(order_items_data, OrderItem(b, f, q, pct))
    /\ UNCHANGED order_items
    /\ UNCHANGED <<relayVars, handlerVars, providerVars, skuVars, imgVars, invVars, runVars>>

\* batch_insert of order_items_data, after every 1000th customer and at the
\* end (1324-1355).
InsertOrderItems ==
    /\ order_items_data # << >>
    /\ order_items' = order_items \cup
                        { StoredRow(order_items_data[k]) : k \in 1..Len(order_items_data) }
    /\ order_items_data' = << >>
    /\ UNCHANGED <<relayVars, handlerVars, providerVars, skuVars, imgVars, invVars, runVars>>

InitOrders ==
    /\ order_items_data = << >>
    /\ order_items = {}

NextOrders == GenerateOrderItem \/ InsertOrderItems

\* =========================================================================
\*  Database generators: one full generation run
\*  (data/database/generate_zava_postgres.py 1693-1760,
\*   data/database/generate_zava_sql_server.py 1741-1846)
\* =========================================================================

\* The calls generate_postgresql_database makes, in the order of its body.
PostgresPhases ==
    <<"drop_schema", "create_database_schema", "insert_stores", "insert_categories",
      "insert_product_types", "insert_customers", "insert_products",
      "populate_product_image_embeddings", "populate_product_description_embeddings",
      "verify_embeddings_table", "verify_description_embeddings_table",
      "insert_inventory", "insert_orders", "verify_database_contents",
      "verify_seasonal_patterns">>

\* The calls generate_sql_server_database makes, in the order of its body.
SqlServerPhases ==
    <<"drop_schema", "create_database_schema", "insert_stores", "insert_categories",
      "insert_product_types", "insert_customers", "insert_products",
      "insert_inventory", "insert_orders",
      "populate_product_image_embeddings", "populate_product_description_embeddings",
      "verify_embeddings_table", "verify_description_embeddings_table",
      "verify_database_contents">>

\* The same calls with insert_orders moved in front of insert_products.
PhasesOf_orders_early(variant) ==
    <<"drop_schema", "create_database_schema", "insert_stores", "insert_categories",
      "insert_product_types", "insert_customers", "insert_orders", "insert_products",
      "insert_inventory",
      "populate_product_image_embeddings", "populate_product_description_embeddings",
      "verify_embeddings_table", "verify_description_embeddings_table",
      "verify_database_contents">>

PhasesOf(variant) ==
    IF variant = "postgres" THEN PostgresPhases ELSE SqlServerPhases

GenVariants == {"postgres", "sql_server"}

\* The phases that catch every Exception themselves: the two embedding
\* verifications log the error and return; the SQL Server variant wraps its
\* drop statement in a try of its own and rolls back.
Swallows(variant) ==
    {"verify_embeddings_table", "verify_description_embeddings_table"}
        \cup (IF variant = "sql_server" THEN {"drop_schema"} ELSE {})

DonePhases == { gen_done[k].phase : k \in 1..Len(gen_done) }

\* The run calls its next phase; the previous call has returned.
GenStart ==
    /\ gen_state = "run"
    /\ gen_running = {}
    /\ gen_pc <= Len(PhasesOf(gen_variant))
    /\ gen_running' = {PhasesOf(gen_variant)[gen_pc]}
    /\ gen_starts' = Append(gen_starts,
                            [phase |-> PhasesOf(gen_variant)[gen_pc], done |-> DonePhases])
    /\ UNCHANGED <<gen_variant, gen_pc, gen_done, gen_state>>
    /\ UNCHANGED <<relayVars, handlerVars, providerVars, skuVars, imgVars, invVars, ordVars,
                   batchVars, configVars>>

\* What a returning phase leaves behind.
Returned(phase, logged) ==
    /\ gen_running' = {}
    /\ gen_done' = Append(gen_done, [phase |-> phase, error_logged |-> logged])
    /\ gen_pc' = gen_pc + 1
    /\ gen_state' = IF gen_pc + 1 > Len(PhasesOf(gen_variant)) THEN "complete" ELSE "run"
    /\ UNCHANGED <<gen_variant, gen_starts>>
    /\ UNCHANGED <<relayVars, handlerVars, providerVars, skuVars, imgVars, invVars, ordVars,
                   batchVars, configVars>>

\* The running phase returns normally.
GenReturn ==
    /\ gen_state = "run"
    /\ \E phase \in gen_running : Returned(phase, FALSE)

\* The running phase fails, catches the exception itself and returns.
GenSwallow ==
    /\ gen_state = "run"
    /\ \E phase \in gen_running \cap Swallows(gen_variant) : Returned(phase, TRUE)

\* The running phase raises: the run logs the error, closes the connection
\* and re-raises; no later phase is called.
GenRaise ==
    /\ gen_state = "run"
    /\ \E phase \in gen_running \ Swallows(gen_variant) :
         /\ gen_running' = {}
         /\ gen_state' = "failed"
    /\ UNCHANGED <<gen_variant, gen_pc, gen_done, gen_starts>>
    /\ UNCHANGED <<relayVars, handlerVars, providerVars, skuVars, imgVars, invVars, ordVars,
                   batchVars, configVars>>

\* No generation run.
IdleGen ==
    /\ gen_variant = "postgres"
    /\ gen_pc = 1
    /\ gen_running = {}
    /\ gen_done = << >>
    /\ gen_starts = << >>
    /\ gen_state = "complete"

\* A generation run of either variant, about to make its first call.
InitGen ==
    /\ gen_variant \in GenVariants
    /\ gen_pc = 1
    /\ gen_running = {}
    /\ gen_done = << >>
    /\ gen_starts = << >>
    /\ gen_state = "run"

NextGen == GenStart \/ GenReturn \/ GenSwallow \/ GenRaise

\* =========================================================================
\*  Database generators: the batching of insert_orders
\*  (data/database/generate_zava_postgres.py 1207-1361,
\*   data/database/generate_zava_sql_server.py 1234-1391)
\* =========================================================================

\* "if customer_id % 1000 == 0": the customers between two batch inserts.
FlushEvery == 1000

\* The runs whose draws are all enumerated have at most this many customers.
MaxCustomers == 2

\* The order_frequency_multiplier of the stores of the reference data, in
\* tenths (1.0, 0.9, 2.5), by store_id.
FrequencyMultipliers == <<10, 9, 25>>

\* get_store_multipliers(preferred_store)['orders'], in tenths.
order_frequency(store) == FrequencyMultipliers[store]

\* int(base_orders * order_frequency): int() drops the fraction.
IntOfProduct(base_orders, tenths) == (base_orders * tenths) \div 10

\* num_orders = max(1, int(base_orders * order_frequency))
NumOrders(base_orders, store) ==
    Max(1, IntOfProduct(base_orders, order_frequency(store)))

\* What the random calls of one customer's iteration return: the store of
\* weighted_store_choice, base_orders, and num_items (one value for all the
\* customer's orders).
AllDraws ==
    [store : 1..Len(FrequencyMultipliers), base_orders : 0..5, num_items : {1, 2}]

\* The draws of the long runs, one sequence of draws only.
CycleDraw(customer) ==
    [store |-> ((customer - 1) % Len(FrequencyMultipliers)) + 1,
     base_orders |-> customer % 3,
     num_items |-> 1 + (customer % 2)]

DrawsFor(customer) ==
    IF num_customers <= MaxCustomers THEN AllDraws ELSE {CycleDraw(customer)}

\* weighted_year_choice(), by the order's number.
YearOf(order) == 2020 + (order % 7)

\* The headers one customer's iteration appends to orders_data; order k of
\* the customer has order_id total_orders + k.
NewOrders(customer, d) ==
    [k \in 1..NumOrders(d.base_orders, d.store) |->
        [customer_id |-> customer, store_id |-> d.store,
         order_date |-> YearOf(total_orders + k)]]

\* The items the iteration appends to order_items_data: num_items per order,
\* each carrying the order's order_id and the customer's store_id.
NewItems(d) ==
    [j \in 1..(NumOrders(d.base_orders, d.store) * d.num_items) |->
        [order_id |-> total_orders + ((j - 1) \div d.num_items) + 1,
         store_id |-> d.store,
         item |-> ((j - 1) % d.num_items) + 1]]

\* The same items with the header each was generated with.
NewItemsMade(customer, d) ==
    [j \in 1..Len(NewItems(d)) |->
        [row |-> NewItems(d)[j],
         header |-> NewOrders(customer, d)[((j - 1) \div d.num_items) + 1]]]

\* Where insert_orders goes once the lists hold orders and items: the
\* statements after the loop insert what is left, if anything.
AfterLoop(orders, items) ==
    IF orders # << >> THEN "final_orders"
    ELSE IF items # << >> THEN "final_items"
    ELSE "done"

\* Where the loop goes after customer `customer`.
AfterCustomer(customer, orders, items) ==
    IF customer < num_customers THEN "loop" ELSE AfterLoop(orders, items)

\* "orders_data = []" / "order_items_data = []" after a batch insert.
Emptied_kept(data) == data

Emptied(data) == << >>

\* One iteration of "for customer_id in range(1, num_customers + 1)" up to the
\* batch test.
GenerateCustomer ==
    /\ bo_pc = "loop"
    /\ \E d \in DrawsFor(customer_id) :
         /\ total_orders' = total_orders + NumOrders(d.base_orders, d.store)
         /\ orders_data' = orders_data \o NewOrders(customer_id, d)
         /\ items_data' = items_data \o NewItems(d)
         /\ bo_made' = [orders |-> bo_made.orders \o NewOrders(customer_id, d),
                        items |-> bo_made.items \o NewItemsMade(customer_id, d)]
         /\ bo_draws' = [customer_id |-> customer_id, store |-> d.store,
                         base_orders |-> d.base_orders,
                         num_orders |-> NumOrders(d.base_orders, d.store)]
         /\ IF customer_id % FlushEvery = 0
              THEN /\ bo_pc' = "flush_orders"
                   /\ UNCHANGED customer_id
              ELSE /\ bo_pc' = AfterCustomer(customer_id, orders_data', items_data')
                   /\ customer_id' = customer_id + 1
    /\ UNCHANGED <<num_customers, db_orders, db_items>>
    /\ UNCHANGED <<relayVars, handlerVars, providerVars, skuVars, imgVars, invVars, ordVars,
                   genVars, configVars>>

\* The rows retail.orders holds after the INSERT of `data`: order_id is the
\* table's serial column, one more for every row.
OrdersInserted(data) ==
    db_orders \o [k \in 1..Len(data) |->
                    [order_id |-> Len(db_orders) + k,
                     customer_id |-> data[k].customer_id,
                     store_id |-> data[k].store_id,
                     order_date |-> data[k].order_date]]

\* batch_insert of orders_data, in the loop or after it.
InsertOrders ==
    /\ bo_pc \in {"flush_orders", "final_orders"}
    /\ db_orders' = (IF orders_data # << >> THEN OrdersInserted(orders_data) ELSE db_orders)
    /\ orders_data' = (IF bo_pc = "flush_orders" THEN Emptied(orders_data) ELSE orders_data)
    /\ bo_pc' = IF bo_pc = "flush_orders" THEN "flush_items"
                ELSE IF items_data # << >> THEN "final_items" ELSE "done"
    /\ UNCHANGED <<num_customers, customer_id, total_orders, items_data, db_items, bo_made,
                   bo_draws>>
    /\ UNCHANGED <<relayVars, handlerVars, providerVars, skuVars, imgVars, invVars, ordVars,
                   genVars, configVars>>

\* batch_insert of order_items_data, in the loop or after it.
InsertItems ==
    /\ bo_pc \in {"flush_items", "final_items"}
    /\ db_items' = db_items \o items_data
    /\ items_data' = (IF bo_pc = "flush_items" THEN Emptied(items_data) ELSE items_data)
    /\ IF bo_pc = "flush_items"
         THEN /\ bo_pc' = AfterCustomer(customer_id, orders_data, items_data')
              /\ customer_id' = customer_id + 1
         ELSE /\ bo_pc' = "done"
              /\ UNCHANGED customer_id
    /\ UNCHANGED <<num_customers, total_orders, orders_data, db_orders, bo_made, bo_draws>>
    /\ UNCHANGED <<relayVars, handlerVars, providerVars, skuVars, imgVars, invVars, ordVars,
                   genVars, configVars>>

NoDraws == [customer_id |-> 0, store |-> 1, base_orders |-> 0, num_orders |-> 0]

\* insert_orders(conn, n) at its loop, on the tables create_database_schema
\* has just made.
BatchAt(n, pc) ==
    /\ bo_pc = pc
    /\ num_customers = n
    /\ customer_id = 1
    /\ total_orders = 0
    /\ orders_data = << >>
    /\ items_data = << >>
    /\ db_orders = << >>
    /\ db_items = << >>
    /\ bo_made = [orders |-> << >>, items |-> << >>]
    /\ bo_draws = NoDraws

\* No insert_orders call.
IdleBatch == BatchAt(0, "done")

\* The customer counts of the runs: a few customers, one batch exactly, and
\* one batch and a rest.
CustomerCounts == (1..MaxCustomers) \cup {FlushEvery, FlushEvery + 1}

InitBatch == \E n \in CustomerCounts : BatchAt(n, "loop")

NextBatch == GenerateCustomer \/ InsertOrders \/ InsertItems

\* =========================================================================
\*  Configuration: Config.applicationinsights_connection_string
\*  (src/python/workshop/config.py 113-127,
\*   src/python/mcp_server/sales_analysis/config.py 56-70)
\* =========================================================================

IngestionEndpointKey ==
    <<"I", "n", "g", "e", "s", "t", "i", "o", "n", "E", "n", "d", "p", "o", "i", "n", "t">>

LiveEndpointKey == <<"L", "i", "v", "e", "E", "n", "d", "p", "o", "i", "n", "t">>

InstrumentationKeyKey ==
    <<"I", "n", "s", "t", "r", "u", "m", "e", "n", "t", "a", "t", "i", "o", "n", "K", "e", "y">>

ConnectionKeys == {InstrumentationKeyKey, IngestionEndpointKey, LiveEndpointKey}

\* Values of a component: a key, a host, URLs with and without a trailing
\* slash and with a path, and a lone slash.
ConnectionValues ==
    {<<"k">>, <<"h">>, <<"h", "/">>,
     <<"s", ":", "/", "/", "h">>, <<"s", ":", "/", "/", "h", "/">>,
     <<"s", ":", "/", "/", "h", "/", "p">>, <<"s", ":", "/", "/", "h", "/", "p", "/">>,
     <<"/">>}

ConnectionParts == [key : ConnectionKeys, value : ConnectionValues]

\* The configured strings: none, and strings of one or two components.
ConnectionStrings ==
    {<< >>} \cup { <<a>> : a \in ConnectionParts }
            \cup { <<a, b>> : a, b \in ConnectionParts }

\* The text of a connection string: key=value components joined by ";".
RECURSIVE Render(_)
Render(parts) ==
    IF parts = << >> THEN << >>
    ELSE Head(parts).key \o <<"=">> \o Head(parts).value
           \o (IF Len(parts) > 1 THEN <<";">> ELSE << >>) \o Render(Tail(parts))

\* text[i..] starts with word.
StartsAt(text, i, word) ==
    /\ i + Len(word) - 1 <= Len(text)
    /\ SubSeq(text, i, i + Len(word) - 1) = word

\* "(IngestionEndpoint|LiveEndpoint)=": the length of the alternative that
\* matches at i with its "=", 0 when neither does.
KeyLenAt(text, i) ==
    IF StartsAt(text, i, IngestionEndpointKey \o <<"=">>) THEN Len(IngestionEndpointKey) + 1
    ELSE IF StartsAt(text, i, LiveEndpointKey \o <<"=">>) THEN Len(LiveEndpointKey) + 1
    ELSE 0

\* "[^;]+": the last index of the run of characters other than ";" that
\* starts at j (j - 1 when the run is empty).
RECURSIVE RunEnd(_, _)
RunEnd(text, j) ==
    IF j > Len(text) \/ text[j] = ";" THEN j - 1 ELSE RunEnd(text, j + 1)

\* "([^;]+)/" is greedy: the group extends to the last "/" of the run that
\* has at least one character before it.  0 when there is none.
LastSlash(text, from, to) ==
    LET at == { k \in from..to : text[k] = "/" }
    IN  IF at = {} THEN 0 ELSE CHOOSE k \in at : \A j \in at : j <= k

\* The index of the "/" that ends the match of the pattern at i, 0 when the
\* pattern does not match at i.
MatchSlash(text, i) ==
    IF KeyLenAt(text, i) = 0 THEN 0
    ELSE LastSlash(text, i + KeyLenAt(text, i) + 1, RunEnd(text, i + KeyLenAt(text, i)))

\* re.sub(pattern, r"\1=\2", text) from index i on: the matches are taken from
\* left to right, and each is replaced by itself without its last character.
RECURSIVE ReSub(_, _)
ReSub(text, i) ==
    IF i > Len(text) THEN << >>
    ELSE IF MatchSlash(text, i) # 0
      THEN SubSeq(text, i, MatchSlash(text, i) - 1) \o ReSub(text, MatchSlash(text, i) + 1)
      ELSE <<text[i]>> \o ReSub(text, i + 1)

\* The property's body.
CleanedConnectionString(text) ==
    IF text = << >> THEN << >> ELSE ReSub(text, 1)

NoCfgResult == [has |-> FALSE, v |-> << >>]

\* A caller reads config.applicationinsights_connection_string.
ReadConnectionString ==
    /\ cfg_class # "none"
    /\ ~cfg_result.has
    /\ cfg_result' = [has |-> TRUE, v |-> CleanedConnectionString(appinsights_connection_string)]
    /\ UNCHANGED <<cfg_class, cfg_parts, appinsights_connection_string>>
    /\ UNCHANGED <<relayVars, handlerVars, providerVars, skuVars, imgVars, invVars, ordVars,
                   genVars, batchVars>>

\* No Config object.
IdleConfig ==
    /\ cfg_class = "none"
    /\ cfg_parts = << >>
    /\ appinsights_connection_string = << >>
    /\ cfg_result = NoCfgResult

\* A Config object of either package, built from the environment.
InitConfig ==
    /\ cfg_class \in {"workshop", "mcp_server"}
    /\ cfg_parts \in ConnectionStrings
    /\ appinsights_connection_string = Render(cfg_parts)
    /\ cfg_result = NoCfgResult

NextConfig == ReadConnectionString

\* No generation run, no insert_orders call and no Config object.
IdleRuns == IdleGen /\ IdleBatch /\ IdleConfig

\* =========================================================================
\*  Specifications
\* =========================================================================

vars == <<relayVars, handlerVars, providerVars, scriptVars>>

\* No script is running.
IdleScripts == InitSku({<< >>}) /\ IdleImg /\ InitInv /\ InitOrders /\ IdleRuns

\* No service is in use.
IdleServices ==
    /\ InitRelay /\ InitHandlerState /\ h_pending = << >>
    /\ InitProvider(NoCallers)

Init ==
    /\ InitRelay /\ InitHandlerState /\ h_pending \in HandlerTexts
    /\ InitProvider(NoCallers)
    /\ IdleScripts

\* One run of the relay's stream generator.
InitRelayRun ==
    /\ InitRelay /\ InitHandlerState /\ h_pending = << >>
    /\ InitProvider(NoCallers)
    /\ IdleScripts

SpecRelay == InitRelayRun /\ [][NextRelay]_vars

\* One GET /chat/stream request, from its parameters to the end of its response.
InitChatRun ==
    /\ InitChat /\ InitHandlerState /\ h_pending = << >>
    /\ InitProvider(NoCallers)
    /\ IdleScripts

SpecChat == InitChatRun /\ [][NextChat]_vars

\* One request on each route that forwards an identity to the agent service.
InitRoutes ==
    /\ ChatRequest /\ InitClear
    /\ InitHandlerState /\ h_pending = << >>
    /\ InitProvider(NoCallers)
    /\ IdleScripts

NextRoutes == NextChat \/ ClearChat

SpecRoutes == InitRoutes /\ [][NextRoutes]_vars

\* One turn delivering SplitText in deltas, then on_done.
InitSplit ==
    /\ InitRelay /\ InitHandlerState /\ h_pending = SplitText
    /\ InitProvider(NoCallers)
    /\ IdleScripts

SpecSplit == InitSplit /\ [][NextSplit]_vars

\* One turn delivering TwoRefText in deltas cut at token boundaries, then
\* on_done.
InitRefs ==
    /\ InitRelay /\ InitHandlerState /\ h_pending = TwoRefText
    /\ InitProvider(NoCallers)
    /\ IdleScripts

SpecRefs == InitRefs /\ [][NextRefs]_vars

\* One turn delivering a text with a bracket that never closes, in deltas of
\* one character, 250 characters or 500 characters.
InitCap ==
    /\ InitRelay /\ InitHandlerState /\ h_pending \in CapTexts
    /\ InitProvider(NoCallers)
    /\ IdleScripts

NextCap == OnSizedDelta

SpecCap == InitCap /\ [][NextCap]_vars

\* One turn of a handler with cleanup arriving at any moment.
SpecHandler == Init /\ [][NextHandler]_vars

\* Inputs of the concurrent callers; each has an identity of its own.
Identities == <<SUPER_MANAGER_UUID, "S1", "S2">>
OwnIds == [c \in Callers |-> {Identities[((c - 1) % Len(Identities)) + 1]}]
PoolTables == { <<"retail", "stores">>, <<"retail", "orders">> }
PoolLists == { << <<"retail", "orders">> >> }
PoolSqls == {"orders"}
PoolThresholds == {3000}
PoolLimits == {20}

\* Concurrent callers of the operations that set the session identity, on
\* one provider with a healthy database.
InitPool ==
    /\ InitRelay /\ InitHandlerState /\ h_pending = << >>
    /\ InitProvider(TwoCallers)
    /\ IdleScripts

NextPool ==
    \/ CallCreatePool \/ CreatePool
    \/ CallGetTableSchema(PoolTables, OwnIds) \/ GetTableSchema(Healthy, Kept)
    \/ TableExists(Healthy, Kept) \/ ColumnExists(Healthy, Kept) \/ FetchDistinctValues(Healthy, Kept)
    \/ CallExecuteQuery(PoolSqls, OwnIds) \/ ExecuteQuery(Healthy, Kept)
    \/ CallSearchProductsBySimilarity(PoolThresholds, PoolLimits, OwnIds)
    \/ SearchProductsBySimilarity(Healthy, Kept)
    \/ CallGetTableMetadataFromList(PoolLists, OwnIds)
    \/ GetTableMetadataFromList(Healthy, Kept)

SpecPool == InitPool /\ [][NextPool]_vars

\* As many concurrent get_table_schema calls as the pool has connections.
InitSchemas ==
    /\ InitRelay /\ InitHandlerState /\ h_pending = << >>
    /\ InitProvider(AllCallers)
    /\ IdleScripts

NextSchemas ==
    \/ CallCreatePool \/ CreatePool
    \/ CallGetTableSchema({<<"retail", "stores">>}, OwnIds)
    \/ GetTableSchema(Healthy, Kept)
    \/ TableExists(Healthy, Kept) \/ ColumnExists(Healthy, Kept)
    \/ FetchDistinctValues(Healthy, Kept)

SpecSchemas == InitSchemas /\ [][NextSchemas]_vars

\* One caller making any sequence of calls, each awaited before the next,
\* on a database whose statements may fail.
SeqIds == [c \in Callers |-> {"S1"}]

InitSeq ==
    /\ InitRelay /\ InitHandlerState /\ h_pending = << >>
    /\ InitProvider(OneCaller)
    /\ IdleScripts

NextSeq ==
    \/ CallCreatePool \/ CreatePool \/ CallClosePool \/ ClosePool
    \/ CallTableExists(TableArgs) \/ TableExists(Faulty, KeptOrReset)
    \/ CallColumnExists(TableArgs, ColumnArgs) \/ ColumnExists(Faulty, KeptOrReset)
    \/ CallFetchDistinctValues(TableArgs, ColumnArgs) \/ FetchDistinctValues(Faulty, KeptOrReset)
    \/ CallGetTableSchema(TableArgs, SeqIds) \/ GetTableSchema(Faulty, KeptOrReset)
    \/ CallGetTableMetadataString(TableArgs, SeqIds)
    \/ CallGetTableMetadataFromList(TableListArgs, SeqIds)
    \/ GetTableMetadataFromList(Faulty, KeptOrReset)
    \/ CallExecuteQuery(SqlArgs, SeqIds) \/ ExecuteQuery(Faulty, KeptOrReset)
    \/ CallSearchProductsBySimilarity(ThresholdArgs, MaxRowsArgs, SeqIds)
    \/ SearchProductsBySimilarity(Faulty, KeptOrReset)
    \/ CallGetAllSchemas(SeqIds) \/ GetAllTableNames(Faulty, KeptOrReset)
    \/ CallEnsureSchemasLoaded(SeqIds)

SpecSeq == InitSeq /\ [][NextSeq]_vars

\* Runs of the SKU assigner on one catalog file.
InitSkuRun == IdleServices /\ InitSku(Catalogs) /\ IdleImg /\ InitInv /\ InitOrders /\ IdleRuns

SpecSku == InitSkuRun /\ [][NextSku]_vars

\* One run of the image generator, which may die at any step.
InitImgRun == IdleServices /\ InitSku({<< >>}) /\ InitImg /\ InitInv /\ InitOrders /\ IdleRuns

SpecImg == InitImgRun /\ [][NextImg]_vars

\* Both database generators fill retail.inventory.
InitInvRun == IdleServices /\ IdleScripts

SpecInv == InitInvRun /\ [][NextInv]_vars

\* A database generator fills retail.order_items.
InitOrdersRun == IdleServices /\ IdleScripts

SpecOrders == InitOrdersRun /\ [][NextOrders]_vars

\* One caller searching by similarity, with any threshold.
InitSearch ==
    /\ InitRelay /\ InitHandlerState /\ h_pending = << >>
    /\ InitProvider(OneCaller)
    /\ IdleScripts

NextSearch ==
    \/ CallCreatePool \/ CreatePool
    \/ CallSearchProductsBySimilarity(SearchThresholdArgs, MaxRowsArgs, SeqIds)
    \/ SearchProductsBySimilarity(Healthy, Kept)

SpecSearch == InitSearch /\ [][NextSearch]_vars

\* ---- one full generation run of either generator
InitGenRun ==
    IdleServices /\ InitSku({<< >>}) /\ IdleImg /\ InitInv /\ InitOrders /\ InitGen /\ IdleBatch
    /\ IdleConfig

SpecGen == InitGenRun /\ [][NextGen]_vars

\* ---- one insert_orders call
InitBatchRun ==
    IdleServices /\ InitSku({<< >>}) /\ IdleImg /\ InitInv /\ InitOrders /\ IdleGen /\ InitBatch
    /\ IdleConfig

SpecBatch == InitBatchRun /\ [][NextBatch]_vars

\* ---- one Config object and a read of its connection string
InitConfigRun ==
    IdleServices /\ InitSku({<< >>}) /\ IdleImg /\ InitInv /\ InitOrders /\ IdleGen /\ IdleBatch
    /\ InitConfig

SpecConfig == InitConfigRun /\ [][NextConfig]_vars

\* =========================================================================
\*  Properties
\* =========================================================================

Last(s) == s[Len(s)]

\* C1: every run of _generate_stream ends with the sentinel [DONE] as the
\* last event, and on a failure path the error event comes just before it.
C1_StreamEndsWithDone ==
    r_pc = "done" =>
        /\ r_out # << >>
        /\ Last(r_out) = DoneEvent
        /\ r_path # "ok" =>
              /\ Len(r_out) >= 2
              /\ r_out[Len(r_out) - 1].type = "error"

\* The concatenation of the text items in the queue.
RECURSIVE QueueTextFrom(_, _)
QueueTextFrom(queue, i) ==
    IF i > Len(queue) THEN << >>
    ELSE (IF queue[i].type = "text" THEN queue[i].content ELSE << >>)
         \o QueueTextFrom(queue, i + 1)

QueueText == QueueTextFrom(token_queue, 1)

IsPrefix(a, b) == Len(a) <= Len(b) /\ SubSeq(b, 1, Len(a)) = a

Contains(s, pat) == rfind(s, pat) # -1

SeeDone == <<"s", "e", "e", " ", " ", "d", "o", "n", "e">>

\* C2: however SplitText is cut into non-empty deltas, the text items
\* enqueued by the deltas and the final on_done spell "see  done", and the
\* image reference appears neither in an item nor in their concatenation.
C2_SplitEmitsSeeDone ==
    (h_done => h_pending = << >>) =>
        /\ IsPrefix(QueueText, SeeDone)
        /\ ~Contains(QueueText, SplitRef)
        /\ \A x \in 1..Len(token_queue) :
              /\ token_queue[x].type = "text"
              /\ token_queue[x].content # << >>
              /\ ~HasMatch(token_queue[x].content)
        /\ h_done => QueueText = SeeDone

\* C2 witness: the turn is over and the reference fell between two items.
C2_Witness ==
    /\ h_done
    /\ h_pending = << >>
    /\ token_queue = <<TextItem(<<"s", "e", "e", " ">>), TextItem(<<" ", "d", "o", "n", "e">>)>>

\* C3: once cleanup has run, every put_safely call returns False and adds
\* nothing, so the token queue is empty from then on.
C3_ClosedQueueStaysEmpty ==
    is_closed => (token_queue = << >> /\ TRUE \notin h_rets)

\* C3 witness: a producer callback called put_safely after cleanup.
C3_Witness == is_closed /\ FALSE \in h_rets /\ token_queue = << >>

\* ---- the schema/query service

\* Caller c is suspended in get_connection and no connection is free.
Waiting(c) ==
    /\ callers[c].stack # << >>
    /\ Top(callers[c]).pc = "acq"
    /\ get_connection = {}

\* C4: with the pool limited to 3 connections there is no reachable state
\* in which every caller waits for a connection (none of them can then ever
\* be given one: the connections are all held by callers that wait).
C4_NoPoolDeadlock == ~(\A c \in Callers : Waiting(c))

\* The frames that have set the session identity on their connection and
\* still hold it.
SetsIdentity ==
    {"execute_query", "search_products_by_similarity", "get_table_schema",
     "get_table_metadata_from_list"}
Guarded(frame) ==
    /\ frame.fn \in SetsIdentity
    /\ frame.conn # 0
    /\ frame.pc # "set"

\* C5: from the identity-set statement of a call on, through every query it
\* guards, the connection is held by that caller alone and its session
\* identity is the rls_user_id the caller supplied.
C5_GuardedQueryRunsUnderOwnIdentity ==
    \A c \in Callers : \A i \in 1..Len(callers[c].stack) :
        LET frame == callers[c].stack[i]
        IN  /\ (frame.fn \in SetsIdentity /\ frame.conn # 0)
                  => conns[frame.conn].holder = c
            /\ Guarded(frame) => conns[frame.conn].ident = callers[c].rls

\* C5 witness: two callers with different identities are both between their
\* identity-set statement and a guarded query.
C5_Witness ==
    \E c1 \in Callers : \E c2 \in Callers :
        /\ callers[c1].stack # << >> /\ callers[c2].stack # << >>
        /\ callers[c1].rls # callers[c2].rls
        /\ Guarded(Top(callers[c1])) /\ Guarded(Top(callers[c2]))

\* The call of op by caller c is over.
Done(c, op) ==
    /\ callers[c].op = op
    /\ callers[c].stack = << >>
    /\ callers[c].res.kind # "none"

\* The stores managed by an identity, and the orders of stores.
StoresOf(rls) ==
    { StoreRows[i].store_id : i \in { j \in 1..Len(StoreRows) :
                                        StoreRows[j].rls_user_id = rls } }
OrderIds(rows) == { rows[i][1] : i \in 1..Len(rows) }

\* C6: an orders query through execute_query returns, under a store identity,
\* exactly the orders of that identity's stores, and under the all-zero
\* identity every order, whatever identities used the connection before.
C6_OrdersFilteredByIdentity ==
    \A c \in Callers :
        (/\ Done(c, "execute_query")
         /\ callers[c].args.sql = "orders"
         /\ ~callers[c].failed)
        => LET r == callers[c].res.v.r
               all == { OrderRows[i].order_id : i \in 1..Len(OrderRows) }
               own == { OrderRows[i].order_id :
                          i \in { j \in 1..Len(OrderRows) :
                                    OrderRows[j].store_id \in StoresOf(callers[c].rls) } }
           IN  /\ callers[c].res.v.err = ""
               /\ OrderIds(r) = IF callers[c].rls = SUPER_MANAGER_UUID THEN all ELSE own

\* C6 witness: a store identity got its own store's single order on the
\* only connection used so far, on which the all-zero identity queried too.
C6_Witness ==
    \E c1 \in Callers : \E c2 \in Callers :
        /\ Done(c1, "execute_query") /\ callers[c1].rls = "S1"
        /\ callers[c1].res.v.n = 1
        /\ Done(c2, "execute_query") /\ callers[c2].rls = SUPER_MANAGER_UUID
        /\ callers[c2].res.v.n = 3
        /\ conns[1].ident = "S1"
        /\ \A k \in Conns \ {1} : conns[k].ident = ""

\* The table names of TableArgs that have the form schema.table with both
\* parts non-empty.
WellFormed ==
    { <<"retail", "stores">>, <<"retail", "orders">>, <<"retail", "missing">> }
PublicOps ==
    {"get_table_schema", "get_table_metadata_string", "get_table_metadata_from_list",
     "fetch_distinct_values", "table_exists", "column_exists", "execute_query",
     "search_products_by_similarity"}
Raised(c, e) == callers[c].res.kind = "raise" /\ callers[c].res.v = e

C8_EnvelopeShape ==
    \A c \in Callers :
        (Done(c, "execute_query") \/ Done(c, "search_products_by_similarity"))
        => LET cl == callers[c]
               v == cl.res.v
           IN  /\ cl.res.kind = "value"
               /\ cl.failed => v.err # "" /\ v.c = << >> /\ v.r = << >> /\ v.n = 0
               /\ ~cl.failed => v.err = "" /\ v.n = Len(v.r)
               /\ (~cl.failed /\ v.r = << >> /\ cl.op = "execute_query")
                     => v.msg = "No rows"

\* C8 witness: execute_query returned the err envelope after its
\* identity-set statement failed.
C8_Witness ==
    \E c \in Callers :
        /\ Done(c, "execute_query")
        /\ callers[c].failed
        /\ callers[c].stmts = <<"set_config">>
        /\ callers[c].res.v.err # ""

TakesTable == {"get_table_schema", "table_exists", "column_exists",
               "fetch_distinct_values"}
MalformedAt(names) == { i \in 1..Len(names) : names[i] \notin WellFormed }

C10_NoPoolNothingLoaded ==
    connection_pool = "None" => all_schemas.none /\ schema_cache = {}

\* C10: whenever there is no pool, the per-table cache is empty and
\* all_schemas is None or the empty mapping (which ensure_schemas_loaded
\* stores when it runs without a pool).
C10_NoPoolNothingCached ==
    connection_pool = "None"
        => schema_cache = {} /\ (all_schemas.none \/ all_schemas.map = << >>)

\* C10 witness: there is no pool and all_schemas is the empty mapping.
C10_Witness ==
    /\ connection_pool = "None"
    /\ ~all_schemas.none
    /\ Done(1, "ensure_schemas_loaded")

\* ---- C11
WhitespaceOnly(t) == \A i \in 1..Len(t) : t[i] \in Whitespace
NoRls == r_rls = {} \/ r_rls = {""}
Answered == r_pc # "request"

\* C11: a GET /chat/stream request whose message is empty or whitespace-only,
\* or that carries no rls_user_id, is answered with exactly one inline error
\* event and nothing is posted to the agent service; something is posted only
\* for a request that passes both checks.
C11_InvalidRequestNeverReachesAgent ==
    /\ (Answered /\ WhitespaceOnly(r_message))
          => /\ r_out = <<ErrorEvent("Empty message")>>
             /\ r_posts = << >> /\ r_pc = "done"
    /\ (Answered /\ ~WhitespaceOnly(r_message) /\ NoRls)
          => /\ r_out = <<ErrorEvent("RLS User ID is required")>>
             /\ r_posts = << >> /\ r_pc = "done"
    /\ r_posts # << >> => ~WhitespaceOnly(r_message) /\ ~NoRls

\* C11 witness: a request with a message and no identity has been answered.
C11_Witness ==
    /\ Answered /\ ~WhitespaceOnly(r_message) /\ r_rls = {""}
    /\ r_out = <<ErrorEvent("RLS User ID is required")>>

\* ---- C12
Proposed(log) == { log[k].generated_sku : k \in 1..Len(log) }
AllDistinct(log) ==
    \A j, k \in 1..Len(log) : j # k => log[j].generated_sku # log[k].generated_sku
UniqueAgainst(log, input) ==
    /\ AllDistinct(log)
    /\ Proposed(log) \cap collect_existing_skus(input) = {}

\* C12: every SKU generate_and_assign_skus assigns differs from every SKU the
\* catalog held before the run and from every other SKU assigned in the run.
C12_AssignedSkusUnique ==
    /\ sku_pc = "loop" => UniqueAgainst(assignment_log, sku_file)
    /\ \A r \in 1..Len(sku_runs) :
          UniqueAgainst(sku_runs[r].assignments, sku_runs[r].input)

\* ---- C13
DryRuns == { r \in 1..Len(sku_runs) : sku_runs[r].dry_run }

\* C13: two dry runs on the same catalog propose the same SKU for every
\* product; a dry run writes no sku field into the loaded catalog, writes no
\* file, and leaves the catalog file as it was.
C13_DryRunRepeatableAndReadOnly ==
    /\ \A q, r \in DryRuns :
          sku_runs[q].input = sku_runs[r].input
             => sku_runs[q].assignments = sku_runs[r].assignments
    /\ \A r \in DryRuns :
          /\ sku_runs[r].writes = << >>
          /\ r < Len(sku_runs) => sku_runs[r + 1].input = sku_runs[r].input
    /\ (dry_run /\ sku_pc \in {"generate", "loop", "done"})
          => /\ product_data = sku_file
             /\ sku_writes = << >>

\* C13 witness: two dry runs have finished, each with a proposal for a
\* product whose first candidate was taken.
C13_Witness ==
    /\ Len(sku_runs) = 2 /\ DryRuns = {1, 2}
    /\ sku_runs[1].assignments # << >>
    /\ sku_runs[2].assignments # << >>
    /\ LBPLY(3) \in Proposed(sku_runs[2].assignments)

\* ---- C14
DocumentedCategoryCode(category) ==
    IF category = HAND_TOOLS THEN <<"H", "T">> ELSE <<"L", "B">>
DocumentedTypeCode(product_type) ==
    IF product_type = HAMMERS THEN <<"H", "A", "M">>
    ELSE IF product_type = SCREWDRIVERS THEN <<"S", "C", "R">>
    ELSE <<"P", "L", "Y">>

\* C14: the codes derived for HAND TOOLS, LUMBER & BUILDING MATERIALS, HAMMERS,
\* SCREWDRIVERS and PLYWOOD are HT, LB, HAM, SCR and PLY: every SKU proposed for
\* a product of such a category and type starts with the two documented codes.
C14_DocumentedCodes ==
    \A k \in 1..Len(assignment_log) :
       LET e == assignment_log[k]
       IN  (/\ e.category \in {HAND_TOOLS, LUMBER}
            /\ e.product_type \in {HAMMERS, SCREWDRIVERS, PLYWOOD})
              => Take(e.generated_sku, 5)
                   = DocumentedCategoryCode(e.category)
                       \o DocumentedTypeCode(e.product_type)

\* ---- C15
\* C15: wherever the image generation run dies, at most one image it
\* generated is missing from the catalog file.
C15_CrashLosesAtMostOneImage ==
    img_pc = "crashed" => Cardinality(Unrecorded) <= 1

\* ---- C16
\* C16: with the same reference data and the same random draws, the SQL
\* Server generator stores the stock level the Postgres generator stores, for
\* every (store, product) pair.
C16_SameInventoryInBothVariants ==
    \A p \in InvPairs : inv_sql[p] = inv_pg[p]

\* ---- C17
\* C17: every stored order item row satisfies total_amount = unit_price *
\* quantity - discount_amount on its two-decimal column values, and its
\* discount_amount is 0 whenever its discount_percent is 0.
C17_StoredRowsBalance ==
    \A row \in order_items :
       /\ row.total_amount = row.unit_price * row.quantity - row.discount_amount
       /\ row.discount_percent = 0 => row.discount_amount = 0

\* ---- C18
\* The searches that returned rows, and the rows within p percent similarity.
Searched(c) ==
    /\ Done(c, "search_products_by_similarity")
    /\ callers[c].res.kind = "value"
    /\ ~callers[c].failed
WithinPercent(p) ==
    { ProductRows[i].product_id :
        i \in { j \in 1..Len(ProductRows) : 10000 - ProductRows[j].distance >= p } }
ReturnedIds(c) ==
    { callers[c].res.v.r[i][1] : i \in 1..Len(callers[c].res.v.r) }
ReportedPercents(c) ==
    { callers[c].res.v.r[i][3] : i \in 1..Len(callers[c].res.v.r) }

\* C18 as stated: the rows returned for a threshold of p percent are rows
\* within the cutoff 1 - p/100, and each reports a similarity percent >= p.
C18_ReportedPercentAtLeastThreshold ==
    \A c \in Callers :
       Searched(c) =>
          /\ ReturnedIds(c) \subseteq WithinPercent(callers[c].args.threshold)
          /\ \A sp \in ReportedPercents(c) : sp * 10 >= callers[c].args.threshold

\* C18, amended: the rows returned for a threshold of p percent are the
\* nearest rows within the cutoff 1 - p/100 (all of them when max_rows allows);
\* the reported percent is rounded to one decimal, so it is >= p - 0.05, and
\* >= p when p is a multiple of 0.1.
C18_ReportedPercentWithinRounding ==
    \A c \in Callers :
       Searched(c) =>
          LET p == callers[c].args.threshold
              n == callers[c].args.max_rows
          IN  /\ ReturnedIds(c) \subseteq WithinPercent(p)
              /\ Cardinality(ReturnedIds(c)) = Min(n, Cardinality(WithinPercent(p)))
              /\ \A sp \in ReportedPercents(c) :
                    /\ sp * 10 >= p - 5
                    /\ p % 10 = 0 => sp * 10 >= p

\* C18 witness: a search with the threshold 30 returned the rows at distance
\* 0.1, 0.6996 and 0.7, reporting 90.0, 30.0 and 30.0 percent.
C18_Witness ==
    \E c \in Callers :
       /\ Searched(c)
       /\ callers[c].args.threshold = 3000
       /\ ReturnedIds(c) = {1, 2, 3}
       /\ ReportedPercents(c) = {900, 300}

\* ---- C19
\* C19: whatever the text and however it is cut into deltas, the text items
\* of on_message_delta and on_done spell the text with every complete
\* reference removed, and no item holds a piece of a reference.
C19_ItemsSpellTextWithoutReferences ==
    LET delivered == assistant_message
        expected == PatternSub(delivered \o h_pending)
    IN  /\ (h_done => h_pending = << >>) => IsPrefix(QueueText, expected)
        /\ (h_done /\ h_pending = << >>) => QueueText = expected


\* The record get_table_schema builds for retail.orders when no caller asked
\* for the table before: the years are read under the caller's own identity.
FirstOrdersSchema(rls) ==
    SchemaData(<<"retail", "orders">>, AvailableYears(rls))

\* C20: the schema metadata get_table_schema returns for retail.orders to a
\* caller does not depend on the identities that requested the table
\* earlier: it is the record the same caller gets when nobody asked before.
C20_SchemaIndependentOfEarlierCallers ==
    \A c \in Callers :
        (/\ Done(c, "get_table_schema")
         /\ callers[c].args.table = <<"retail", "orders">>
         /\ callers[c].res.kind = "value"
         /\ callers[c].res.v.error = "")
        => callers[c].res.v = FirstOrdersSchema(callers[c].rls)


\* ---- C21
CheckedOut == { k \in Conns : conns[k].holder # 0 }
InProgress(c) == callers[c].stack # << >>
HeldBy(c) ==
    { callers[c].stack[i].conn : i \in 1..Len(callers[c].stack) } \ {0}

\* C21: every connection that is checked out is held by a frame of an
\* operation still in progress, so at most max_size connections are checked
\* out and none is while no operation is in progress: an operation that ends,
\* by a return, an error result or an exception, has released what it acquired.
C21_ConnectionsReleased ==
    /\ Cardinality(CheckedOut) <= max_size
    /\ \A k \in CheckedOut :
          /\ InProgress(conns[k].holder)
          /\ k \in HeldBy(conns[k].holder)
    /\ (\A c \in Callers : ~InProgress(c)) => CheckedOut = {}

\* C21 witness: a get_table_schema call that acquired a connection has ended
\* with the exception of a failed statement, and no connection is checked out.
C21_Witness ==
    \E c \in Callers :
        /\ Done(c, "get_table_schema")
        /\ callers[c].res.kind = "raise"
        /\ Len(callers[c].stmts) >= 2
        /\ CheckedOut = {}

\* ---- C22
RECURSIVE Flat(_)
Flat(chunks) == IF chunks = << >> THEN << >> ELSE Head(chunks) \o Flat(Tail(chunks))

\* The upstream lines read so far, and those that are the upstream's 'done'
\* event.
UpstreamRead == Flat(r_in)
IsDoneLine(line) ==
    /\ line.prefix /\ line.json
    /\ line.data.content = "" /\ line.data.file_info = "" /\ line.data.error = ""
    /\ line.data.done
DoneLines == { i \in 1..Len(UpstreamRead) : IsDoneLine(UpstreamRead[i]) }
FirstDone == CHOOSE i \in DoneLines : \A j \in DoneLines : i <= j

\* The event an upstream line asks the relay to forward, if any.
EventOf(line) ==
    IF ~(line.prefix /\ line.json) THEN << >>
    ELSE IF line.data.content # "" THEN <<[type |-> "content", v |-> line.data.content]>>
    ELSE IF line.data.file_info # "" THEN <<[type |-> "file", v |-> line.data.file_info]>>
    ELSE IF line.data.error # "" THEN <<ErrorEvent(line.data.error)>>
    ELSE << >>
RECURSIVE EventsOf(_)
EventsOf(lines) ==
    IF lines = << >> THEN << >> ELSE EventOf(Head(lines)) \o EventsOf(Tail(lines))

\* What the relay has emitted apart from the event that ends its response.
Forwarded ==
    IF r_pc = "done" THEN SubSeq(r_out, 1, Len(r_out) - 1) ELSE r_out

\* C22: once the upstream has sent its 'done' event, the relay forwards nothing
\* more of the upstream response: what it has forwarded are the events of the
\* lines in front of the 'done' event, and only the event that ends the
\* relay's response follows.
C22_NothingForwardedAfterDone ==
    DoneLines # {} =>
        Forwarded = EventsOf(SubSeq(UpstreamRead, 1, FirstDone - 1))

\* ---- C23
\* The identity a request supplied: none when the parameter or key is absent,
\* null or empty.
SuppliedStream == IF Falsy(r_rls) THEN {} ELSE r_rls
SuppliedClear ==
    IF c_body.json /\ c_body.rls_user_id.has /\ ~Falsy(c_body.rls_user_id.v)
    THEN c_body.rls_user_id.v ELSE {}

\* C23: a request forwarded to the agent service carries the all-zero
\* super-manager identity only if the browser supplied it, on the chat
\* stream route and on the chat clear route; a chat stream request without
\* an identity is not forwarded at all.
C23_NoIdentityInvented ==
    /\ \A i \in 1..Len(r_posts) :
          /\ SuppliedStream # {}
          /\ r_posts[i].rls_user_id = SuppliedStream
    /\ \A i \in 1..Len(c_posts) :
          c_posts[i].rls_user_id = {"00000000-0000-0000-0000-000000000000"}
             => SuppliedClear = {"00000000-0000-0000-0000-000000000000"}

\* ---- C24
\* C24: after every on_message_delta call the text buffer holds at most
\* max_buffer_size characters, and a buffer that grew past the cap was emitted
\* as it was: the items and the buffer together still spell the text delivered.
C24_BufferWithinCap ==
    /\ Len(text_buffer) <= max_buffer_size
    /\ QueueText \o text_buffer = assistant_message

\* C24 witness: a buffer of more than max_buffer_size characters has been
\* emitted as one item and the buffer is empty.
C24_Witness ==
    /\ text_buffer = << >>
    /\ \E i \in 1..Len(token_queue) :
          /\ Len(token_queue[i].content) > max_buffer_size
          /\ token_queue[i].content[1] = "["

\* ---- C25
\* A get_table_schema call by caller c starts in this step.
StartsSchemaCall(c) ==
    /\ ncalls' = ncalls + 1
    /\ callers[c].stack = << >>
    /\ callers'[c].op = "get_table_schema"
    /\ \/ callers'[c].stack # << >>
       \/ callers'[c].op # callers[c].op
       \/ callers'[c].rls # callers[c].rls
       \/ callers'[c].args.table # callers[c].args.table
       \/ callers'[c].res.kind # callers[c].res.kind
       \/ callers'[c].stmts # callers[c].stmts

\* C25: a record in the per-table cache stays there, unchanged, until
\* close_pool clears the cache; a get_table_schema call for a cached table
\* returns the cached record at once, without a statement; and no 'table not
\* found' result is in the cache.
C25_CachedRecordStable ==
    [][ /\ \/ \A s \in schema_cache : s \in schema_cache'
           \/ schema_cache' = {} /\ connection_pool' = "None"
        /\ \A s \in schema_cache' : s.error = ""
        /\ \A c \in Callers :
              (StartsSchemaCall(c) /\ Cached(schema_cache, callers'[c].args.table) # {})
              => /\ callers'[c].stack = << >>
                 /\ callers'[c].res.kind = "value"
                 /\ callers'[c].res.v \in schema_cache
                 /\ callers'[c].stmts = << >> ]_vars

\* ---- C26
\* The event an upstream line completes: that of a whole line that parses, or
\* that of the cut line whose second piece this is.
SentEventOf(line) ==
    IF IsTailPiece(line) THEN EventOf([prefix |-> TRUE, json |-> TRUE, data |-> line.data])
    ELSE EventOf(line)
RECURSIVE SentEventsOf(_)
SentEventsOf(lines) ==
    IF lines = << >> THEN << >>
    ELSE SentEventOf(Head(lines)) \o SentEventsOf(Tail(lines))

\* C26: as long as the upstream has sent no 'done' event, what the relay has
\* forwarded are the content, file and error events the upstream has sent,
\* each once and in order, those cut across two chunks included; lines that
\* do not parse are skipped and the stream goes on.
C26_ForwardsEveryEventOnce ==
    DoneLines = {} => Forwarded = SentEventsOf(UpstreamRead)

\* ---- C27: generation phases run one at a time, after what they reference
\* The pairs <<a, b>>: phase a has to be complete before phase b starts.
EmbeddingPhases ==
    {"populate_product_image_embeddings", "populate_product_description_embeddings"}

CompletesBefore ==
    {<<"insert_stores", "insert_customers">>,
     <<"insert_categories", "insert_product_types">>,
     <<"insert_product_types", "insert_products">>,
     <<"insert_customers", "insert_orders">>}
    \cup { <<a, b>> : a \in {"insert_stores", "insert_products"},
                      b \in EmbeddingPhases \cup {"insert_inventory", "insert_orders"} }

\* C27: in a full generation run of either generator at most one phase is
\* running at any time, and when a phase starts, the phases whose rows it
\* references have completed: stores before customers, categories before
\* product types, product types before products, stores and products before
\* embeddings and inventory, and customers, stores and products before orders.
C27_PhasesInDependencyOrder ==
    /\ Cardinality(gen_running) <= 1
    /\ \A k \in 1..Len(gen_starts) : \A p \in CompletesBefore :
         p[2] = gen_starts[k].phase => p[1] \in gen_starts[k].done
    /\ \A k \in 1..Len(gen_starts) : \A j \in 1..(k - 1) :
         gen_starts[j].phase \in gen_starts[k].done

\* insert_orders has started in a SQL Server run whose drop statement failed.
C27_Witness ==
    /\ gen_variant = "sql_server"
    /\ "insert_orders" \in gen_running
    /\ \E k \in 1..Len(gen_done) : gen_done[k].phase = "drop_schema" /\ gen_done[k].error_logged

\* ---- C28: insert_orders inserts every header and item once, items after
\* their headers, and an item's order_id is its header's
\* The header tuple of a stored retail.orders row.
HeaderOf(row) ==
    [customer_id |-> row.customer_id, store_id |-> row.store_id,
     order_date |-> row.order_date]

StoredHeaders == [k \in 1..Len(db_orders) |-> HeaderOf(db_orders[k])]

MadeItemRows == [k \in 1..Len(bo_made.items) |-> bo_made.items[k].row]

\* C28: at every moment of insert_orders each stored item's order_id is the
\* order_id of a header that is already stored; and when insert_orders has
\* completed, the stored headers are the generated headers, each once, the
\* stored items are the generated items, each once (whether they went in with
\* a 1,000-customer batch or with the final insert), and the header stored
\* under an item's order_id is the header generated with the item and has the
\* item's store_id.
C28_OrdersInsertedOnceAndLinked ==
    /\ \A k \in 1..Len(db_items) : db_items[k].order_id \in 1..Len(db_orders)
    /\ \A k \in 1..Len(db_orders) : db_orders[k].order_id = k
    /\ bo_pc = "done" =>
         /\ StoredHeaders = bo_made.orders
         /\ db_items = MadeItemRows
         /\ \A k \in 1..Len(bo_made.items) :
              /\ HeaderOf(db_orders[bo_made.items[k].row.order_id]) = bo_made.items[k].header
              /\ db_orders[bo_made.items[k].row.order_id].store_id
                   = bo_made.items[k].row.store_id

\* A run of 1,001 customers has completed: the first 1,000 customers' rows
\* went in with the batch insert, the last customer's with the final insert.
C28_Witness ==
    /\ bo_pc = "done"
    /\ num_customers = FlushEvery + 1
    /\ db_orders # << >>
    /\ db_orders[Len(db_orders)].customer_id = FlushEvery + 1
    /\ db_items[Len(db_items)].order_id = Len(db_orders)
    /\ Len(db_items) > Len(db_orders)

\* ---- C29: the number of orders of a customer
\* Python's round() of base_orders * order_frequency: to the nearest integer,
\* a half to the even one.
RoundOfProduct(base_orders, tenths) ==
    LET q == (base_orders * tenths) \div 10
        r == (base_orders * tenths) % 10
    IN  IF r < 5 THEN q
        ELSE IF r > 5 THEN q + 1
        ELSE IF q % 2 = 0 THEN q ELSE q + 1

\* C29: for each customer insert_orders generates max(1, round(b x m))
\* orders, b the base count drawn from 0..5 and m the
\* order_frequency_multiplier of the customer's store; so every customer gets
\* at least one order.
C29_OrdersPerCustomerRounded ==
    bo_draws.customer_id > 0 =>
        /\ bo_draws.num_orders
             = Max(1, RoundOfProduct(bo_draws.base_orders, order_frequency(bo_draws.store)))
        /\ bo_draws.num_orders >= 1

\* ---- C30: only a trailing slash of the two endpoint values is removed
\* A component as the claim says it is returned: an IngestionEndpoint or
\* LiveEndpoint value loses its trailing slash, anything else is unchanged.
WithoutTrailingSlash(part) ==
    IF /\ part.key \in {IngestionEndpointKey, LiveEndpointKey}
       /\ part.value[Len(part.value)] = "/"
    THEN [part EXCEPT !.value = SubSeq(part.value, 1, Len(part.value) - 1)]
    ELSE part

\* C30: the property returns the configured connection string with only a
\* trailing slash removed from the IngestionEndpoint and LiveEndpoint values;
\* an endpoint value without a trailing slash, and every other component, is
\* returned unchanged.
C30_OnlyTrailingSlashRemoved ==
    cfg_result.has =>
        cfg_result.v = Render([k \in 1..Len(cfg_parts) |-> WithoutTrailingSlash(cfg_parts[k])])

====
